---- MODULE Spec2Model ----
(***************************************************************************)
(* sshbuddy: host aggregation (internal/config), the Termix client         *)
(* (internal/termix) and the list/form/settings models (internal/tui).     *)
(***************************************************************************)
EXTENDS Integers, Sequences, FiniteSets, TLC

(***************************************************************************)
(* Bounds of the model                                                     *)
(***************************************************************************)
\* longest host list the UI is driven to (guards of the add actions)
MaxHosts == 2
\* wall-clock readings range over 0 .. MaxNow
MaxNow == 1
\* FormSubmittedMsg messages in flight
MaxPending == 1
MaxBatches == 2

(***************************************************************************)
(* Program constants                                                       *)
(***************************************************************************)
\* IsTokenExpired: "Add 5 minute buffer before actual expiry"
TokenSkew == 300
\* Authenticate: "Default to 24 hours if no expiry is set"
DefaultLifetime == 86400

(***************************************************************************)
(* Hosts                                                                   *)
(***************************************************************************)
\* models.Host as the code uses it: Alias, Hostname, User, Port, Source
Host(alias, hostname, user, port, source) ==
    [alias |-> alias, hostname |-> hostname, user |-> user, port |-> port,
     source |-> source]

RECURSIVE SeqFilter(_, _)
\* the sub-sequence of s whose elements are in the set keep
SeqFilter(s, keep) ==
    IF s = <<>> THEN <<>>
    ELSE IF Head(s) \in keep THEN <<Head(s)>> \o SeqFilter(Tail(s), keep)
         ELSE SeqFilter(Tail(s), keep)

SeqRange(s) == {s[i] : i \in DOMAIN s}

AliasesOf(hosts) == {hosts[i].alias : i \in DOMAIN hosts}

CountAlias(hosts, a) == Cardinality({i \in DOMAIN hosts : hosts[i].alias = a})

(***************************************************************************)
(* Errors                                                                  *)
(***************************************************************************)
NoError == [kind |-> "nil", msg |-> "", wrapped |-> FALSE]
\* &AuthError{Message: ...}
AuthError(msg) == [kind |-> "AuthError", msg |-> msg, wrapped |-> FALSE]
\* fmt.Errorf(...)
GenericError(msg) == [kind |-> "error", msg |-> msg, wrapped |-> FALSE]

(***************************************************************************)
(* Termix client (package termix)                                          *)
(***************************************************************************)
\* NewClient
NewClient(baseURL, jwt, jwtExpiry) ==
    [baseURL |-> baseURL, jwt |-> jwt, jwtExpiry |-> jwtExpiry]

\* IsTokenExpired with the comparison off by one (> for >=)
IsTokenExpiredStrict(c, now) ==
    IF c.jwt = "" \/ c.jwtExpiry = 0 THEN TRUE
    ELSE now > (c.jwtExpiry - TokenSkew)

\* Client.IsTokenExpired at wall-clock reading now
IsTokenExpired(c, now) ==
    IF c.jwt = "" \/ c.jwtExpiry = 0 THEN TRUE
    ELSE now >= (c.jwtExpiry - TokenSkew)

\* Answers of POST /users/login.  kind: "connfail" (client.Do fails),
\* "status" (StatusCode /= 200), "ok" (200); an "ok" answer carries a jwt
\* cookie or not, with MaxAge and Expires (0 = unset / zero time).
LoginAnswer(kind, cookie, token, maxAge, expires) ==
    [kind |-> kind, cookie |-> cookie, token |-> token,
     maxAge |-> maxAge, expires |-> expires]

\* an expiry that looks at the cookie's Expires before its MaxAge
CookieExpiryExpiresFirst(resp, now) ==
    IF resp.expires # 0 THEN resp.expires
    ELSE IF resp.maxAge > 0 THEN now + resp.maxAge
    ELSE now + DefaultLifetime

\* expiry computed from the jwt cookie
CookieExpiry(resp, now) ==
    IF resp.maxAge > 0 THEN now + resp.maxAge
    ELSE IF resp.expires # 0 THEN resp.expires
    ELSE now + DefaultLifetime

\* Client.Authenticate: [c, jwt, expiry, err]
Authenticate(c, username, password, now, resp) ==
    IF resp.kind = "connfail"
    THEN [c |-> c, jwt |-> "", expiry |-> 0,
          err |-> GenericError("termix: connection failed")]
    ELSE IF resp.kind = "status"
    THEN [c |-> c, jwt |-> "", expiry |-> 0,
          err |-> GenericError("termix: authentication failed")]
    ELSE IF resp.cookie
    THEN [c |-> [c EXCEPT !.jwt = resp.token, !.jwtExpiry = CookieExpiry(resp, now)],
          jwt |-> resp.token, expiry |-> CookieExpiry(resp, now), err |-> NoError]
    ELSE [c |-> c, jwt |-> "", expiry |-> 0,
          err |-> GenericError("termix: JWT cookie not found")]

\* convertTermixHost: Alias = Name, Hostname = IP, User = Username,
\* Port = strconv.Itoa(Port)
convertTermixHost(th) ==
    Host(th.name, th.ip, th.username, ToString(th.port), "termix")

\* Answers of GET /ssh/db/host.  kind: "connfail", "status" (with code),
\* "ok" (200); the body is "array" (a JSON array of the TermixHost records
\* hosts), "null" (the JSON value null) or "text" (not JSON).
FetchAnswer(kind, code, body, hosts) ==
    [kind |-> kind, code |-> code, body |-> body, hosts |-> hosts]

\* json.Unmarshal(bodyBytes, &termixHosts) with termixHosts a nil
\* []TermixHost: null is accepted and leaves the slice nil
Unmarshal(resp) ==
    [ok |-> resp.body \in {"array", "null"},
     hosts |-> IF resp.body = "array" THEN resp.hosts ELSE <<>>]

\* requests put on the wire, in order
LoginReq == [req |-> "login", jwt |-> ""]
FetchReq(jwt) == [req |-> "fetch", jwt |-> jwt]

\* the credentials test with && for ||
HaveCredsEither(username, password) == ~(username = "" /\ password = "")

\* the test FetchHosts makes twice: username == "" || password == ""
HaveCreds(username, password) == ~(username = "" \/ password = "")

\* the part of FetchHosts after the last answer resp was received:
\* status check and JSON decoding
DecodeHosts(c, resp, log) ==
    IF resp.code # 200
    THEN [c |-> c, hosts |-> <<>>, log |-> log,
          err |-> GenericError("termix: API returned status " \o ToString(resp.code))]
    ELSE IF ~Unmarshal(resp).ok
    THEN [c |-> c, hosts |-> <<>>, log |-> log,
          err |-> GenericError("termix API returned invalid JSON")]
    ELSE LET termixHosts == Unmarshal(resp).hosts
         IN  [c |-> c, log |-> log, err |-> NoError,
              hosts |-> [i \in DOMAIN termixHosts |->
                            convertTermixHost(termixHosts[i])]]

\* the StatusUnauthorized branch re-entered when the retried fetch is again
\* answered 401: a second login and a third fetch
RetryUnauthorizedAgain(c, username, password, now, srv, log) ==
    IF ~HaveCreds(username, password)
    THEN [c |-> c, hosts |-> <<>>, log |-> log,
          err |-> AuthError("termix: authentication required - token invalid")]
    ELSE LET a == Authenticate(c, username, password, now, srv.login2)
             log2 == Append(log, LoginReq)
         IN  IF a.err # NoError
             THEN [c |-> a.c, hosts |-> <<>>, log |-> log2, err |-> a.err]
             ELSE LET log3 == Append(log2, FetchReq(a.jwt))
                  IN  IF srv.fetch2.kind # "connfail" /\ srv.fetch2.code = 401
                      THEN DecodeHosts(a.c, srv.fetch2,
                                       log3 \o <<LoginReq, FetchReq(a.jwt)>>)
                      ELSE DecodeHosts(a.c, srv.fetch2, log3)

\* the StatusUnauthorized branch of FetchHosts: re-authenticate and retry
RetryUnauthorized(c, username, password, now, srv, log) ==
    IF ~HaveCreds(username, password)
    THEN [c |-> c, hosts |-> <<>>, log |-> log,
          err |-> AuthError("termix: authentication required - token invalid")]
    ELSE LET a == Authenticate(c, username, password, now, srv.login2)
             log2 == Append(log, LoginReq)
         IN  IF a.err # NoError
             THEN [c |-> a.c, hosts |-> <<>>, log |-> log2, err |-> a.err]
             ELSE LET c2 == [a.c EXCEPT !.jwt = a.jwt, !.jwtExpiry = a.expiry]
                      log3 == Append(log2, FetchReq(c2.jwt))
                  IN  IF srv.fetch2.kind = "connfail"
                      THEN [c |-> c2, hosts |-> <<>>, log |-> log3,
                            err |-> GenericError("termix: failed to fetch hosts after re-auth")]
                      ELSE DecodeHosts(c2, srv.fetch2, log3)

\* a first GET that re-authenticates on every status other than 200
FetchWithTokenRetryAnyStatus(c, username, password, now, srv, log) ==
    LET log1 == Append(log, FetchReq(c.jwt))
    IN  IF srv.fetch1.kind = "connfail"
        THEN [c |-> c, hosts |-> <<>>, log |-> log1,
              err |-> GenericError("termix: failed to fetch hosts")]
        ELSE IF srv.fetch1.code # 200
        THEN RetryUnauthorized(c, username, password, now, srv, log1)
        ELSE DecodeHosts(c, srv.fetch1, log1)

\* FetchHosts from the first GET on, with client c holding the token to send
FetchWithToken(c, username, password, now, srv, log) ==
    LET log1 == Append(log, FetchReq(c.jwt))
    IN  IF srv.fetch1.kind = "connfail"
        THEN [c |-> c, hosts |-> <<>>, log |-> log1,
              err |-> GenericError("termix: failed to fetch hosts")]
        ELSE IF srv.fetch1.code = 401
        THEN RetryUnauthorized(c, username, password, now, srv, log1)
        ELSE DecodeHosts(c, srv.fetch1, log1)

\* FetchHosts going on to the fetch without looking at Authenticate's error
FetchHostsUncheckedAuth(c, username, password, now, srv) ==
    IF IsTokenExpired(c, now)
    THEN IF ~HaveCreds(username, password)
         THEN [c |-> c, hosts |-> <<>>, log |-> <<>>,
               err |-> AuthError("termix: authentication required - token expired or missing")]
         ELSE LET a == Authenticate(c, username, password, now, srv.login1)
              IN  FetchWithToken([a.c EXCEPT !.jwt = a.jwt, !.jwtExpiry = a.expiry],
                                 username, password, now, srv, <<LoginReq>>)
    ELSE FetchWithToken(c, username, password, now, srv, <<>>)

\* Client.FetchHosts(username, password): [c, hosts, err, log], where c is the
\* client afterwards and log the requests sent.  srv gives the server's answer
\* to each request the call can make: login1, fetch1, login2, fetch2.
FetchHosts(c, username, password, now, srv) ==
    IF IsTokenExpired(c, now)
    THEN IF ~HaveCreds(username, password)
         THEN [c |-> c, hosts |-> <<>>, log |-> <<>>,
               err |-> AuthError("termix: authentication required - token expired or missing")]
         ELSE LET a == Authenticate(c, username, password, now, srv.login1)
              IN  IF a.err # NoError
                  THEN [c |-> a.c, hosts |-> <<>>, log |-> <<LoginReq>>, err |-> a.err]
                  ELSE FetchWithToken([a.c EXCEPT !.jwt = a.jwt, !.jwtExpiry = a.expiry],
                                      username, password, now, srv, <<LoginReq>>)
    ELSE FetchWithToken(c, username, password, now, srv, <<>>)

(***************************************************************************)
(* Native SSH configuration (package ssh)                                  *)
(***************************************************************************)
\* an SSHConfigHost as ParseSSHConfig yields it: Host, HostName, User, Port
SSHConfigHost(host, hostName, user, port) ==
    [host |-> host, hostName |-> hostName, user |-> user, port |-> port]

\* ConvertToHost: HostName defaults to Host, Port to "22", User to $USER or
\* "root"; Source is not set
ConvertToHost(sshHost, envUser) ==
    Host(sshHost.host,
         IF sshHost.hostName = "" THEN sshHost.host ELSE sshHost.hostName,
         IF sshHost.user # "" THEN sshHost.user
         ELSE IF envUser # "" THEN envUser ELSE "root",
         IF sshHost.port = "" THEN "22" ELSE sshHost.port,
         "")

\* LoadHostsFromSSHConfig on the environment e = [err, hosts, user]:
\* a failed parse gives no hosts and an error
LoadHostsFromSSHConfig(e) ==
    IF e.err THEN [hosts |-> <<>>, err |-> TRUE]
    ELSE [hosts |-> [i \in DOMAIN e.hosts |-> ConvertToHost(e.hosts[i], e.user)],
          err |-> FALSE]

(***************************************************************************)
(* Configuration store (package config)                                    *)
(***************************************************************************)
\* models.Config
Config(hosts, theme, sources, termix, ssh) ==
    [hosts |-> hosts, theme |-> theme, sources |-> sources,
     termix |-> termix, ssh |-> ssh]

\* the config LoadConfig starts from when config.json does not exist
DefaultConfig ==
    Config(<<>>, "",
           [sshbuddy |-> TRUE, sshconfig |-> TRUE, termix |-> FALSE],
           [enabled |-> FALSE, baseURL |-> "", jwt |-> "", jwtExpiry |-> 0],
           [enabled |-> TRUE, configPath |-> ""])

\* the zero models.Config{Hosts: []models.Host{}} NewModel falls back to
ZeroConfig ==
    Config(<<>>, "",
           [sshbuddy |-> FALSE, sshconfig |-> FALSE, termix |-> FALSE],
           [enabled |-> FALSE, baseURL |-> "", jwt |-> "", jwtExpiry |-> 0],
           [enabled |-> FALSE, configPath |-> ""])

\* config.json: absent, or holding the last config written; malformed when
\* its text is not the JSON of a config, cfg then being what the text held
NoFile == [exists |-> FALSE, malformed |-> FALSE, cfg |-> DefaultConfig]

\* the hosts SaveConfig keeps: Source neither "ssh-config" nor "termix"
SavedHosts(hosts) ==
    SeqFilter(hosts, {h \in SeqRange(hosts) :
                        h.source # "ssh-config" /\ h.source # "termix"})

\* a SaveConfig that writes the host list as it is given
SaveConfigUnfiltered(config) ==
    [exists |-> TRUE, malformed |-> FALSE, cfg |-> config]

\* SaveConfig: the file written for config
SaveConfig(config) ==
    [exists |-> TRUE, malformed |-> FALSE,
     cfg |-> Config(SavedHosts(config.hosts), config.theme, config.sources,
                    config.termix, config.ssh)]

\* the error json.Unmarshal returns for a file that is not the JSON of a config
CorruptStore == [kind |-> "corrupt", msg |-> "invalid character", wrapped |-> FALSE]

\* a read that accepts any text
ReadErrorNever(file) == NoError

\* the error LoadConfig and LoadConfigRaw return from reading config.json
ReadError(file) ==
    IF file.exists /\ file.malformed THEN CorruptStore ELSE NoError

\* a LoadConfigRaw that never reads the file
LoadConfigRawDefaults(file) == DefaultConfig

\* LoadConfigRaw when ReadError is nil: the file's config, or the defaults
\* when there is no file
LoadConfigRaw(file) == IF file.exists THEN file.cfg ELSE DefaultConfig

\* "Mark manual hosts": an empty Source becomes "manual"
MarkManual(hosts) ==
    [i \in DOMAIN hosts |->
        IF hosts[i].source = "" THEN [hosts[i] EXCEPT !.source = "manual"]
        ELSE hosts[i]]

\* "Mark SSH config hosts"
MarkSSHConfig(hosts) ==
    [i \in DOMAIN hosts |-> [hosts[i] EXCEPT !.source = "ssh-config"]]

RECURSIVE AddNonConflictingFirst(_, _)
\* a merge that puts the hosts it adds in front of the list
AddNonConflictingFirst(acc, new) ==
    IF new = <<>> THEN acc
    ELSE IF Head(new).alias \in acc.existingAliases
         THEN AddNonConflictingFirst(acc, Tail(new))
         ELSE AddNonConflictingFirst(
                  [hosts |-> <<Head(new)>> \o acc.hosts,
                   existingAliases |-> acc.existingAliases \cup {Head(new).alias}],
                  Tail(new))

RECURSIVE AddNonConflicting(_, _)
\* the loops "Add ... hosts that don't conflict": acc = [hosts, existingAliases]
AddNonConflicting(acc, new) ==
    IF new = <<>> THEN acc
    ELSE IF Head(new).alias \in acc.existingAliases
         THEN AddNonConflicting(acc, Tail(new))
         ELSE AddNonConflicting(
                  [hosts |-> Append(acc.hosts, Head(new)),
                   existingAliases |-> acc.existingAliases \cup {Head(new).alias}],
                  Tail(new))

\* a manual stage that keeps the stored hosts whatever the SSHBuddy toggle says
ManualStageAlways(config) ==
    [hosts |-> MarkManual(config.hosts),
     existingAliases |-> AliasesOf(config.hosts)]

\* LoadConfig up to the manual hosts: [hosts, existingAliases]
ManualStage(config) ==
    IF config.sources.sshbuddy
    THEN [hosts |-> MarkManual(config.hosts),
          existingAliases |-> AliasesOf(config.hosts)]
    ELSE [hosts |-> <<>>, existingAliases |-> {}]

\* an SSH stage that gives up the hosts gathered so far when the SSH
\* configuration cannot be read
SSHStageDropOnError(config, acc, sshEnv) ==
    IF config.sources.sshconfig /\ config.ssh.enabled
    THEN LET r == LoadHostsFromSSHConfig(sshEnv)
         IN  IF r.err THEN ManualStage([config EXCEPT !.hosts = <<>>])
             ELSE AddNonConflicting(acc, MarkSSHConfig(r.hosts))
    ELSE acc

\* LoadConfig's SSH config stage
SSHStage(config, acc, sshEnv) ==
    IF config.sources.sshconfig /\ config.ssh.enabled
    THEN LET r == LoadHostsFromSSHConfig(sshEnv)
         IN  IF r.err THEN acc
             ELSE AddNonConflicting(acc, MarkSSHConfig(r.hosts))
    ELSE acc

\* a guard of the Termix stage that does not look at the source toggle
TermixActiveNoToggle(config) ==
    config.termix.enabled /\ config.termix.baseURL # ""

\* the guard of LoadConfig's Termix stage
TermixActive(config) ==
    config.sources.termix /\ config.termix.enabled /\ config.termix.baseURL # ""

\* the Termix error handed on as it came
KeepTermixError(err) == err

\* fmt.Errorf("%w\n\nCheck your Termix configuration at: %s", ...)
WrapTermixError(err) == [err EXCEPT !.wrapped = TRUE]

\* LoadConfig's Termix stage: [config, err, file], file being config.json
\* afterwards
TermixStage(config, acc, file, now, srv) ==
    LET client == NewClient(config.termix.baseURL, config.termix.jwt,
                            config.termix.jwtExpiry)
        r == FetchHosts(client, "", "", now, srv)
    IN  IF r.err # NoError
        THEN IF r.err.kind = "AuthError"
             THEN [ok |-> FALSE, config |-> ZeroConfig, err |-> r.err, file |-> file]
             ELSE [ok |-> FALSE, config |-> ZeroConfig,
                   err |-> WrapTermixError(r.err), file |-> file]
        ELSE LET merged == AddNonConflicting(acc, r.hosts)
                 c1 == [config EXCEPT !.hosts = merged.hosts]
             IN  IF r.c.jwt # config.termix.jwt \/ r.c.jwtExpiry # config.termix.jwtExpiry
                 THEN LET c2 == [c1 EXCEPT !.termix.jwt = r.c.jwt,
                                           !.termix.jwtExpiry = r.c.jwtExpiry]
                      IN  [ok |-> TRUE, config |-> c2, err |-> NoError,
                           file |-> SaveConfig(c2)]
                 ELSE [ok |-> TRUE, config |-> c1, err |-> NoError, file |-> file]

\* LoadConfig: [ok, config, err, file].  sshEnv is the native SSH
\* configuration, srv the Termix server's answers, now the wall clock.
LoadConfig(file, sshEnv, now, srv) ==
    LET config == LoadConfigRaw(file)
        acc == SSHStage(config, ManualStage(config), sshEnv)
    IN  IF ReadError(file) # NoError
        THEN [ok |-> FALSE, config |-> ZeroConfig, err |-> ReadError(file),
              file |-> file]
        ELSE IF TermixActive(config)
        THEN TermixStage([config EXCEPT !.hosts = MarkManual(config.hosts)],
                         acc, file, now, srv)
        ELSE [ok |-> TRUE, config |-> [config EXCEPT !.hosts = acc.hosts],
              err |-> NoError, file |-> file]

\* an AuthenticateTermix that starts from the hosts LoadConfig keeps, not from
\* the file as it is
AuthenticateTermixFromLoaded(file, username, password, now, resp) ==
    LET raw == LoadConfigRaw(file)
        config == [raw EXCEPT !.hosts = ManualStage(raw).hosts]
        a == Authenticate(NewClient(config.termix.baseURL, "", 0),
                          username, password, now, resp)
    IN  IF ReadError(file) # NoError \/ ~config.termix.enabled
           \/ config.termix.baseURL = "" \/ a.err # NoError
        THEN [err |-> a.err, file |-> file]
        ELSE [err |-> NoError,
              file |-> SaveConfig([config EXCEPT !.termix.jwt = a.jwt,
                                                 !.termix.jwtExpiry = a.expiry])]

\* an AuthenticateTermix that saves what Authenticate returned, error or not
AuthenticateTermixSaveAnyway(file, username, password, now, resp) ==
    LET config == LoadConfigRaw(file)
        a == Authenticate(NewClient(config.termix.baseURL, "", 0),
                          username, password, now, resp)
    IN  IF ReadError(file) # NoError \/ ~config.termix.enabled
           \/ config.termix.baseURL = ""
        THEN [err |-> GenericError("termix is not enabled or baseUrl is not configured"),
              file |-> file]
        ELSE [err |-> a.err,
              file |-> SaveConfig([config EXCEPT !.termix.jwt = a.jwt,
                                                 !.termix.jwtExpiry = a.expiry])]

\* an AuthenticateTermix that keeps the password next to the token
AuthenticateTermixKeepPassword(file, username, password, now, resp) ==
    [err |-> NoError,
     file |-> [exists |-> TRUE, malformed |-> FALSE,
               cfg |-> [LoadConfigRaw(file) EXCEPT !.termix =
                          [enabled |-> TRUE, baseURL |-> "https://termix",
                           jwt |-> "t1", jwtExpiry |-> 0, password |-> password]]]]

\* AuthenticateTermix(username, password): [err, file]
AuthenticateTermix(file, username, password, now, resp) ==
    LET config == LoadConfigRaw(file)
    IN  IF ReadError(file) # NoError
        THEN [err |-> [GenericError("failed to load config") EXCEPT !.wrapped = TRUE],
              file |-> file]
        ELSE IF ~config.termix.enabled \/ config.termix.baseURL = ""
        THEN [err |-> GenericError("termix is not enabled or baseUrl is not configured"),
              file |-> file]
        ELSE LET a == Authenticate(NewClient(config.termix.baseURL, "", 0),
                                   username, password, now, resp)
             IN  IF a.err # NoError THEN [err |-> a.err, file |-> file]
                 ELSE [err |-> NoError,
                       file |-> SaveConfig([config EXCEPT !.termix.jwt = a.jwt,
                                                          !.termix.jwtExpiry = a.expiry])]

(***************************************************************************)
(* State                                                                   *)
(***************************************************************************)
VARIABLES
    file,     \* config.json
    sshEnv,   \* ~/.ssh/config as parsed: [err, hosts]
    load,     \* the last LoadConfig call: what it was offered and returned
    m,        \* tui.Model
    pending,  \* commands and messages not yet delivered to Model.Update
    cv,       \* tui.ConfigViewModel
    call      \* a Client.FetchHosts call: its arguments, answers and outcome

vars == <<file, sshEnv, load, m, pending, cv, call>>

(***************************************************************************)
(* Inputs                                                                  *)
(***************************************************************************)
\* wall-clock readings (time.Now().Unix())
Times == 0 .. MaxNow

Usernames == {"", "u"}
Passwords == {"", "p"}

\* cached tokens and expiries a client is constructed with
CachedTokens == {"", "t0"}
CachedExpiries == {0} \cup {TokenSkew + k : k \in 0 .. MaxNow + 1}

\* what the login endpoint can answer when it hands out token
LoginAnswers(token) ==
    {LoginAnswer("connfail", FALSE, "", 0, 0),
     LoginAnswer("status", FALSE, "", 0, 0),
     LoginAnswer("ok", FALSE, "", 0, 0)}
    \cup {LoginAnswer("ok", TRUE, token, ma, ex) :
            ma \in {0, 2 * TokenSkew}, ex \in {0, 3 * TokenSkew}}

\* TermixHost records of the remote inventory: Name, IP, Port, Username
TermixHost(name, ip, port) ==
    [name |-> name, ip |-> ip, port |-> port, username |-> "admin"]

\* what the host endpoint can answer when the inventory is inv
FetchAnswers(inv) ==
    {FetchAnswer("connfail", 0, "text", <<>>),
     FetchAnswer("status", 401, "text", <<>>),
     FetchAnswer("status", 500, "text", <<>>),
     FetchAnswer("ok", 200, "text", <<>>),
     FetchAnswer("ok", 200, "null", <<>>),
     FetchAnswer("ok", 200, "array", inv)}

ClientInventory == <<TermixHost("a", "10.0.0.1", 22)>>

NoCall == [pc |-> "none"]

(***************************************************************************)
(* The Termix client called directly: every FetchHosts call                *)
(***************************************************************************)
Idle == /\ file = NoFile
        /\ sshEnv = [err |-> FALSE, hosts |-> <<>>, user |-> ""]
        /\ load = [cur |-> [n |-> 0], prev |-> [n |-> 0]]
        /\ m = [state |-> "none"]
        /\ pending = <<>>
        /\ cv = [open |-> FALSE]

InitClient ==
    /\ Idle
    /\ call \in [pc : {"ready"},
                 c : {NewClient("https://termix", t, e) :
                        t \in CachedTokens, e \in CachedExpiries},
                 username : Usernames, password : Passwords, now : Times,
                 srv : [login1 : LoginAnswers("t1"), fetch1 : FetchAnswers(ClientInventory),
                        login2 : LoginAnswers("t2"), fetch2 : FetchAnswers(ClientInventory)]]

\* client.FetchHosts(username, password) runs to its return
CallFetchHosts ==
    /\ call.pc = "ready"
    /\ call' = [pc |-> "done", c |-> call.c, username |-> call.username,
                password |-> call.password, now |-> call.now, srv |-> call.srv,
                out |-> FetchHosts(call.c, call.username, call.password,
                                   call.now, call.srv)]
    /\ UNCHANGED <<file, sshEnv, load, m, pending, cv>>

NextClient == CallFetchHosts

SpecClient == InitClient /\ [][NextClient]_vars

(***************************************************************************)
(* Settings view and aggregation (SpecCfg)                                 *)
(***************************************************************************)
\* GetThemeNames
ThemeNames == <<"purple", "blue", "green", "pink", "amber", "cyan">>

\* the theme-cycling code of the "t" key and of the settings view
NextTheme(theme) ==
    LET current == IF theme = "" THEN "purple" ELSE theme
        found == {i \in DOMAIN ThemeNames : ThemeNames[i] = current}
        \* currentIdx stays 0 when the name is not found; Go indexes from 0
        currentIdx == IF found = {} THEN 0 ELSE (CHOOSE i \in found : TRUE) - 1
    IN  ThemeNames[((currentIdx + 1) % Len(ThemeNames)) + 1]

\* manual hosts a config.json written by the application can hold
StoredHost(alias, hostname) == Host(alias, hostname, "u", "", "manual")
StoredLists ==
    {<<StoredHost("a", "1.1.1.1")>>,
     <<StoredHost("a", "1.1.1.1"), StoredHost("b", "1.1.1.2")>>}

\* contents of ~/.ssh/config, and a configuration that cannot be read
SSHEnvs ==
    {[err |-> TRUE, hosts |-> <<>>, user |-> "me"],
     [err |-> FALSE, hosts |-> <<>>, user |-> "me"],
     [err |-> FALSE, user |-> "me",
      hosts |-> <<SSHConfigHost("a", "2.2.2.2", "", ""),
                  SSHConfigHost("c", "", "ops", "2222")>>]}

\* remote inventories
Inventories ==
    {<<TermixHost("a", "3.3.3.1", 22), TermixHost("c", "3.3.3.3", 0),
       TermixHost("d", "3.3.3.4", 22)>>,
     <<TermixHost("b", "3.3.3.2", 22)>>}

InventoryAnswers == UNION {FetchAnswers(inv) : inv \in Inventories}

\* base URLs typed into the Termix settings
BaseURLs == {"", "https://termix"}

\* answers of the login endpoint to the credential prompt
PromptLoginAnswers ==
    {LoginAnswer("connfail", FALSE, "", 0, 0),
     LoginAnswer("status", FALSE, "", 0, 0),
     LoginAnswer("ok", FALSE, "", 0, 0)}
    \cup {LoginAnswer("ok", TRUE, "t1", ma, 0) : ma \in {TokenSkew, 2 * TokenSkew}}

\* LoadConfig never sends a login: FetchHosts is called without credentials
NoLogin == LoginAnswer("connfail", FALSE, "", 0, 0)
NoAnswer == FetchAnswer("connfail", 0, "text", <<>>)

Server(answer) ==
    [login1 |-> NoLogin, fetch1 |-> answer, login2 |-> NoLogin, fetch2 |-> NoAnswer]

NoLoad == [n |-> 0]
\* load holds the last LoadConfig call and the one before it
NoLoads == [cur |-> NoLoad, prev |-> NoLoad]

\* what a LoadConfig call was offered by each source and what it returned
LoadRecord(f, env, now, answer, r) ==
    LET config == LoadConfigRaw(f)
        termixOn == TermixActive(config)
    IN  [n |-> 1,
         sources |-> config.sources,
         sshOn |-> config.ssh.enabled,
         termixOn |-> config.termix.enabled /\ config.termix.baseURL # "",
         termixURL |-> config.termix.baseURL # "",
         manual |-> config.hosts,
         ssh |-> LoadHostsFromSSHConfig(env).hosts,
         answer |-> IF termixOn THEN answer ELSE NoAnswer,
         stale |-> termixOn /\ IsTokenExpired(
                       NewClient("", config.termix.jwt, config.termix.jwtExpiry), now),
         ok |-> r.ok,
         hosts |-> r.config.hosts,
         err |-> r.err]

NoView == [open |-> FALSE]

InitCfg ==
    /\ file \in {NoFile} \cup
                {SaveConfig([DefaultConfig EXCEPT !.hosts = h]) : h \in StoredLists}
    /\ sshEnv \in SSHEnvs
    /\ load = NoLoads
    /\ m = [state |-> "none"]
    /\ pending = <<>>
    /\ cv = NoView
    /\ call = NoCall

\* NewConfigViewModel: LoadConfig, falling back to the defaults on an error
CvOpen ==
    \E now \in Times, answer \in InventoryAnswers :
        LET r == LoadConfig(file, sshEnv, now, Server(answer))
            cfg == IF r.ok THEN r.config ELSE DefaultConfig
        IN  /\ file' = r.file
            /\ cv' = [open |-> TRUE, config |-> cfg,
                      sources |-> <<cfg.sources.sshbuddy, cfg.sources.sshconfig,
                                    cfg.sources.termix>>]
            /\ UNCHANGED <<sshEnv, load, m, pending, call>>

\* ConfigViewModel.Update, " " or enter on source i (1 SSHBuddy, 2 SSH Config,
\* 3 Termix), the focus having been moved there with up/down
CvToggle(i) ==
    /\ cv.open
    /\ LET src == [cv.sources EXCEPT ![i] = ~cv.sources[i]]
           c1 == [cv.config EXCEPT !.sources = [sshbuddy |-> src[1],
                                                sshconfig |-> src[2],
                                                termix |-> src[3]]]
           c2 == IF i = 3 THEN [c1 EXCEPT !.termix.enabled = src[3]] ELSE c1
       IN  /\ cv' = [cv EXCEPT !.sources = src, !.config = c2]
           /\ file' = SaveConfig(c2)
    /\ UNCHANGED <<sshEnv, load, m, pending, call>>

\* ConfigViewModel.Update, " " or enter on the Theme row
CvCycleTheme ==
    /\ cv.open
    /\ LET c1 == [cv.config EXCEPT !.theme = NextTheme(cv.config.theme)]
       IN  /\ cv' = [cv EXCEPT !.config = c1]
           /\ file' = SaveConfig(c1)
    /\ UNCHANGED <<sshEnv, load, m, pending, call>>

\* ConfigViewModel.Update, enter while editing the Termix settings: the base
\* URL is stored in the config before it is validated
CvSaveTermix(url) ==
    /\ cv.open
    /\ LET c1 == [cv.config EXCEPT !.termix.baseURL = url]
       IN  /\ cv' = [cv EXCEPT !.config = c1]
           /\ file' = IF c1.termix.enabled /\ c1.termix.baseURL = ""
                      THEN file
                      ELSE SaveConfig(c1)
    /\ UNCHANGED <<sshEnv, load, m, pending, call>>

RECURSIVE TrimLeft(_)
TrimLeft(s) ==
    IF Len(s) > 0 /\ SubSeq(s, 1, 1) = " " THEN TrimLeft(SubSeq(s, 2, Len(s)))
    ELSE s

RECURSIVE TrimRight(_)
TrimRight(s) ==
    IF Len(s) > 0 /\ SubSeq(s, Len(s), Len(s)) = " "
    THEN TrimRight(SubSeq(s, 1, Len(s) - 1))
    ELSE s

\* strings.TrimSpace, the only white space of the model's strings being " "
TrimSpace(s) == TrimRight(TrimLeft(s))

\* what is typed into the credential prompt
PromptUsernames == {"", " ", "root@termix"}
PromptPasswords == {"", "secret"}

\* TermixAuthModel.Update, enter: AuthenticateTermix unless a field is empty
\* [file, called, authError] after the enter key, the login answering resp
TermixAuthUpdate(f, typedName, password, now, resp) ==
    LET username == TrimSpace(typedName)
        r == AuthenticateTermix(f, username, password, now, resp)
    IN  IF username = "" \/ password = ""
        THEN [file |-> f, called |-> FALSE,
              authError |-> "Username and password are required"]
        ELSE [file |-> r.file, called |-> TRUE,
              authError |-> IF r.err = NoError THEN "" ELSE "Authentication failed"]

TermixAuthEnter(typedName, password) ==
    \E now \in Times, resp \in PromptLoginAnswers :
        /\ file' = TermixAuthUpdate(file, typedName, password, now, resp).file
        /\ UNCHANGED <<sshEnv, load, m, pending, cv, call>>

NextCfg ==
    \/ CvOpen
    \/ \E i \in 1 .. 3 : CvToggle(i)
    \/ CvCycleTheme
    \/ \E url \in BaseURLs : CvSaveTermix(url)
    \/ \E u \in PromptUsernames, p \in PromptPasswords : TermixAuthEnter(u, p)

SpecCfg == InitCfg /\ [][NextCfg]_vars

(***************************************************************************)
(* Aggregation over every store, SSH configuration and inventory (SpecAgg) *)
(***************************************************************************)
\* manual host lists of config.json, one of them with an alias used twice, as
\* the host form leaves it when the same alias is submitted twice, and one
\* with a host whose alias is empty
AggLists ==
    StoredLists \cup {<<>>, <<StoredHost("a", "1.1.1.1"), StoredHost("a", "1.1.1.9")>>,
                      <<StoredHost("", "1.1.1.5")>>}

\* what the host endpoint can answer to a LoadConfig call: the inventories
\* above, and one whose hosts have no name
AggAnswers ==
    InventoryAnswers
    \cup {FetchAnswer("ok", 200, "array",
                      <<TermixHost("", "3.3.3.5", 22), TermixHost("", "3.3.3.6", 22)>>)}

\* Termix settings of config.json: never configured, or configured with a
\* cached token
AggTermix ==
    {[enabled |-> FALSE, baseURL |-> "", jwt |-> "", jwtExpiry |-> 0],
     [enabled |-> TRUE, baseURL |-> "https://termix", jwt |-> "t0",
      jwtExpiry |-> TokenSkew + 1]}

InitAgg ==
    /\ file \in {NoFile} \cup
          {[exists |-> TRUE, malformed |-> FALSE,
            cfg |-> Config(h, "", [sshbuddy |-> s1, sshconfig |-> s2, termix |-> s3],
                           tx, [enabled |-> se, configPath |-> ""])] :
             h \in AggLists, s1 \in BOOLEAN, s2 \in BOOLEAN, s3 \in BOOLEAN,
             tx \in AggTermix, se \in BOOLEAN}
    /\ sshEnv \in SSHEnvs
    /\ load = NoLoads
    /\ m = [state |-> "none"]
    /\ pending = <<>>
    /\ cv = NoView
    /\ call = NoCall

\* LoadConfig is called
AggLoadConfig ==
    \E now \in Times, answer \in AggAnswers :
        LET r == LoadConfig(file, sshEnv, now, Server(answer))
        IN  /\ file' = r.file
            /\ load' = [cur |-> LoadRecord(file, sshEnv, now, answer, r),
                        prev |-> load.cur]
            /\ UNCHANGED <<sshEnv, m, pending, cv, call>>

\* the assignments of the settings view's toggle, for source i switched off
DisableSource(config, i) ==
    LET c1 == [config EXCEPT !.sources =
                  [sshbuddy |-> IF i = 1 THEN FALSE ELSE config.sources.sshbuddy,
                   sshconfig |-> IF i = 2 THEN FALSE ELSE config.sources.sshconfig,
                   termix |-> IF i = 3 THEN FALSE ELSE config.sources.termix]]
    IN  IF i = 3 THEN [c1 EXCEPT !.termix.enabled = FALSE] ELSE c1

SourceOn(config, i) ==
    IF i = 1 THEN config.sources.sshbuddy
    ELSE IF i = 2 THEN config.sources.sshconfig
    ELSE config.sources.termix

\* one source of config.json goes from enabled to disabled, the rest of the
\* file staying as it is
AggSwitchOff(i) ==
    /\ SourceOn(LoadConfigRaw(file), i)
    /\ ReadError(file) = NoError
    /\ file' = [file EXCEPT !.exists = TRUE,
                            !.cfg = DisableSource(LoadConfigRaw(file), i)]
    /\ UNCHANGED <<sshEnv, load, m, pending, cv, call>>

NextAgg ==
    \/ AggLoadConfig
    \/ \E i \in 1 .. 3 : AggSwitchOff(i)

SpecAgg == InitAgg /\ [][NextAgg]_vars

(***************************************************************************)
(* Host list screen and host form (package tui, Spec)                      *)
(***************************************************************************)
\* CharLimit of the form's alias input
AliasCharLimit == 20

DecimalDigits == "0123456789"

RECURSIVE ParseDigits(_, _)
\* the decimal value of s after the digits already read as n, -1 when s
\* holds a character that is not a digit
ParseDigits(s, n) ==
    IF Len(s) = 0 THEN n
    ELSE LET d == {i \in 1 .. 10 : SubSeq(DecimalDigits, i, i) = SubSeq(s, 1, 1)}
         IN  IF d = {} THEN -1
             ELSE ParseDigits(SubSeq(s, 2, Len(s)), 10 * n + (CHOOSE i \in d : TRUE) - 1)

\* strconv.Atoi on the unsigned numerals a port of at most 5 characters can be:
\* [ok, n]
Atoi(s) ==
    LET n == IF Len(s) = 0 THEN -1 ELSE ParseDigits(s, 0)
    IN  [ok |-> n >= 0, n |-> IF n >= 0 THEN n ELSE 0]

\* a Host.Validate that lets the port 0 pass
HostValidateFromZero(h) ==
    (IF TrimSpace(h.alias) = "" THEN {"Alias"} ELSE {})
    \cup (IF TrimSpace(h.hostname) = "" THEN {"Hostname"} ELSE {})
    \cup (IF TrimSpace(h.user) = "" THEN {"User"} ELSE {})
    \cup (IF h.port # "" /\ (~Atoi(h.port).ok \/ Atoi(h.port).n > 65535)
          THEN {"Port"} ELSE {})

\* Host.Validate: the fields found invalid
HostValidate(h) ==
    (IF TrimSpace(h.alias) = "" THEN {"Alias"} ELSE {})
    \cup (IF TrimSpace(h.hostname) = "" THEN {"Hostname"} ELSE {})
    \cup (IF TrimSpace(h.user) = "" THEN {"User"} ELSE {})
    \cup (IF h.port # "" /\ (~Atoi(h.port).ok \/ Atoi(h.port).n < 1
                             \/ Atoi(h.port).n > 65535)
          THEN {"Port"} ELSE {})

\* Config.Validate: the errors as [field, index], index 0 for the config itself
ConfigValidate(c) ==
    {[field |-> "Alias", index |-> i] : i \in
        {i \in DOMAIN c.hosts :
            /\ TrimSpace(c.hosts[i].alias) # ""
            /\ \E j \in 1 .. i - 1 :
                  TrimSpace(c.hosts[j].alias) = TrimSpace(c.hosts[i].alias)}}
    \cup UNION {{[field |-> f, index |-> i] : f \in HostValidate(c.hosts[i])} :
                  i \in DOMAIN c.hosts}
    \cup (IF c.theme # "" /\ c.theme \notin SeqRange(ThemeNames)
          THEN {[field |-> "Theme", index |-> 0]} ELSE {})

\* textinput.Model.SetValue: the value is cut at the input's CharLimit
SetValue(s, limit) == IF Len(s) > limit THEN SubSeq(s, 1, limit) ELSE s

\* NewFormModel: the inputs Alias, Hostname, User, Port, all empty
NewFormModel == [alias |-> "", hostname |-> "", user |-> "", port |-> ""]

\* NewFormModelWithHost: the inputs pre-filled from host
NewFormModelWithHost(host) ==
    [alias |-> SetValue(host.alias, AliasCharLimit), hostname |-> host.hostname,
     user |-> host.user, port |-> host.port]

\* FormModel.GetHost
GetHost(inputs) ==
    Host(inputs.alias, inputs.hostname, inputs.user, inputs.port, "manual")

\* no host awaits a delete confirmation (deleteConfirmHost is nil)
NoHost == [nil |-> TRUE]

\* aliases typed into the form
FormAliases == {"a", " "}

\* what the inputs can hold when enter is pressed on the last field: the
\* form as it was opened, or every field filled in, the port left empty or
\* set to "0"
TypedInputs(form) ==
    {form}
    \cup {[alias |-> a, hostname |-> "9.9.9.9", user |-> "u", port |-> p] :
            a \in FormAliases, p \in {"", "0"}}

\* config.json when the application is started: never written, written with
\* one manual host, written with Termix configured and a cached token, or
\* holding text that is not the JSON of a config
UIFiles ==
    {NoFile,
     SaveConfig([DefaultConfig EXCEPT !.hosts = <<StoredHost("a", "1.1.1.1")>>]),
     SaveConfig([DefaultConfig EXCEPT
                    !.sources.termix = TRUE,
                    !.termix = [enabled |-> TRUE, baseURL |-> "https://termix",
                                jwt |-> "t0", jwtExpiry |-> TokenSkew + MaxNow + 1]]),
     [SaveConfig([DefaultConfig EXCEPT !.hosts = <<StoredHost("a", "1.1.1.1")>>])
        EXCEPT !.malformed = TRUE]}

\* what the Termix server answers while the application starts
UIAnswers ==
    {FetchAnswer("status", 401, "text", <<>>),
     FetchAnswer("ok", 200, "array", <<TermixHost("a", "3.3.3.1", 22)>>)}

\* ~/.ssh/config when the application is started: unreadable, or holding
\* one host
UIEnvs ==
    {[err |-> TRUE, hosts |-> <<>>, user |-> "me"],
     [err |-> FALSE, user |-> "me",
      hosts |-> <<SSHConfigHost("c", "", "ops", "2222")>>]}

Init ==
    /\ file \in UIFiles
    /\ sshEnv \in UIEnvs
    /\ load = NoLoads
    /\ m = [state |-> "none"]
    /\ pending = <<>>
    /\ cv = NoView
    /\ call = NoCall

\* the program is started: NewModel.  Messages of an earlier run are gone.
NewModel ==
    /\ \E now \in Times, answer \in UIAnswers :
        LET r == LoadConfig(file, sshEnv, now, Server(answer))
            cfg == IF r.ok THEN r.config ELSE ZeroConfig
            validationErrors ==
                IF r.ok THEN ConfigValidate(cfg)
                ELSE {[field |-> "Config", index |-> 0]}
        IN  /\ file' = r.file
            /\ m' = [state |-> IF validationErrors # {} THEN "configError" ELSE "list",
                     config |-> cfg,
                     form |-> NewFormModel,
                     editingIndex |-> -1,
                     deleteConfirmHost |-> NoHost,
                     deleteConfirmIdx |-> 0,
                     configErrors |-> validationErrors]
            /\ pending' = <<>>
            /\ UNCHANGED <<sshEnv, load, cv, call>>

\* Model.Update, key "t" in the list: the next theme is applied and saved
KeyT ==
    /\ m.state = "list"
    /\ LET c1 == [m.config EXCEPT !.theme = NextTheme(m.config.theme)]
       IN  /\ m' = [m EXCEPT !.config = c1]
           /\ file' = SaveConfig(c1)
    /\ UNCHANGED <<sshEnv, load, pending, cv, call>>

\* Model.Update, key "n" in the list
KeyN ==
    /\ m.state = "list"
    /\ m' = [m EXCEPT !.state = "form", !.form = NewFormModel, !.editingIndex = -1]
    /\ UNCHANGED <<file, sshEnv, load, pending, cv, call>>

\* strings.Index: the 1-based position of sub in s, 0 when absent
Index(s, sub) ==
    LET at == {i \in 1 .. Len(s) - Len(sub) + 1 :
                 SubSeq(s, i, i + Len(sub) - 1) = sub}
    IN  IF at = {} THEN 0 ELSE CHOOSE i \in at : \A j \in at : i <= j

\* item.FilterValue
FilterValue(h) == h.alias \o h.hostname

\* what the search of the list holds when a key is pressed; "" is no search
Queries == {"", "9"}

\* the hosts whose FilterValue matches the search
Matching(hosts, q) ==
    SeqFilter(hosts, {h \in SeqRange(hosts) : Index(FilterValue(h), q) # 0})

\* list.Model.VisibleItems: every item without a search, else the matching
\* items in the order of their rank, an order the host list does not fix
VisibleItems(hosts, q) ==
    IF q = "" THEN {hosts}
    ELSE LET match == Matching(hosts, q)
         IN  {[i \in DOMAIN match |-> match[p[i]]] : p \in Permutations(DOMAIN match)}

\* the lists the cursor can stand in
Shown ==
    IF m.state = "none" THEN {}
    ELSE UNION {VisibleItems(m.config.hosts, q) : q \in Queries}

\* Model.Update, key "e" in the list showing visible, the cursor on item sel
\* (from 0): SelectedItem is visible[sel], Index is sel
KeyE(visible, sel) ==
    /\ m.state = "list"
    /\ sel + 1 \in DOMAIN visible
    /\ m' = IF visible[sel + 1].source = "ssh-config" THEN m
            ELSE [m EXCEPT !.state = "form",
                           !.form = NewFormModelWithHost(visible[sel + 1]),
                           !.editingIndex = sel]
    /\ UNCHANGED <<file, sshEnv, load, pending, cv, call>>

\* Model.Update, key "c" in the list with the cursor on item sel
KeyC(visible, sel) ==
    /\ m.state = "list"
    /\ sel + 1 \in DOMAIN visible
    /\ LET selected == visible[sel + 1]
           duplicatedHost == [selected EXCEPT !.alias = selected.alias \o " (copy)"]
       IN  m' = [m EXCEPT !.state = "form",
                          !.form = NewFormModelWithHost(duplicatedHost),
                          !.editingIndex = -1]
    /\ UNCHANGED <<file, sshEnv, load, pending, cv, call>>

\* the "d" key asking for the confirmation whatever the host's source
KeyDAnySource(visible, sel) ==
    /\ m.state = "list"
    /\ sel + 1 \in DOMAIN visible
    /\ sel < Len(m.config.hosts)
    /\ m' = [m EXCEPT !.deleteConfirmHost = visible[sel + 1],
                      !.deleteConfirmIdx = sel,
                      !.state = "confirmDelete"]
    /\ UNCHANGED <<file, sshEnv, load, pending, cv, call>>

\* Model.Update, key "d" or "delete" in the list with the cursor on item sel
KeyD(visible, sel) ==
    /\ m.state = "list"
    /\ sel + 1 \in DOMAIN visible
    /\ m' = IF visible[sel + 1].source = "ssh-config"
               \/ ~(sel >= 0 /\ sel < Len(m.config.hosts)) THEN m
            ELSE [m EXCEPT !.deleteConfirmHost = visible[sel + 1],
                           !.deleteConfirmIdx = sel,
                           !.state = "confirmDelete"]
    /\ UNCHANGED <<file, sshEnv, load, pending, cv, call>>

\* Model.Update, key "esc" in the form
FormEsc ==
    /\ m.state = "form"
    /\ m' = [m EXCEPT !.state = "list"]
    /\ UNCHANGED <<file, sshEnv, load, pending, cv, call>>

\* FormModel.Update, enter on the last field, the inputs holding typed: the
\* host is validated and, when valid, a FormSubmittedMsg is sent
FormEnter ==
    /\ m.state = "form"
    /\ Len(pending) < MaxPending
    /\ Len(m.config.hosts) < MaxHosts
    /\ \E typed \in TypedInputs(m.form) :
           LET host == GetHost(typed)
           IN  pending' = IF HostValidate(host) # {} THEN pending
                          ELSE Append(pending, host)
    /\ UNCHANGED <<file, sshEnv, load, m, cv, call>>

\* Model.Update, FormSubmittedMsg: the host replaces the edited one or is
\* appended, and the config is saved
FormSubmitted ==
    /\ pending # <<>>
    /\ m.state # "none"
    /\ LET host == Head(pending)
           hosts == IF m.editingIndex >= 0 /\ m.editingIndex < Len(m.config.hosts)
                    THEN [m.config.hosts EXCEPT ![m.editingIndex + 1] = host]
                    ELSE Append(m.config.hosts, host)
           c1 == [m.config EXCEPT !.hosts = hosts]
       IN  /\ m' = [m EXCEPT !.config = c1, !.state = "list", !.editingIndex = -1]
           /\ file' = SaveConfig(c1)
    /\ pending' = Tail(pending)
    /\ UNCHANGED <<sshEnv, load, cv, call>>

\* Model.Update, key "y" in the delete confirmation
ConfirmDeleteYes ==
    /\ m.state = "confirmDelete"
    /\ LET inRange == m.deleteConfirmIdx >= 0 /\ m.deleteConfirmIdx < Len(m.config.hosts)
           hosts == IF inRange
                    THEN SubSeq(m.config.hosts, 1, m.deleteConfirmIdx)
                         \o SubSeq(m.config.hosts, m.deleteConfirmIdx + 2,
                                   Len(m.config.hosts))
                    ELSE m.config.hosts
           c1 == [m.config EXCEPT !.hosts = hosts]
       IN  /\ m' = [m EXCEPT !.config = c1, !.deleteConfirmHost = NoHost,
                             !.state = "list"]
           /\ file' = IF inRange THEN SaveConfig(c1) ELSE file
    /\ UNCHANGED <<sshEnv, load, pending, cv, call>>

\* Model.Update, key "n" or "esc" in the delete confirmation
ConfirmDeleteNo ==
    /\ m.state = "confirmDelete"
    /\ m' = [m EXCEPT !.deleteConfirmHost = NoHost, !.state = "list"]
    /\ UNCHANGED <<file, sshEnv, load, pending, cv, call>>

\* Model.Update, key "e" on the config error screen
ConfigErrorEdit ==
    /\ m.state = "configError"
    /\ m' = [m EXCEPT !.state = "list"]
    /\ UNCHANGED <<file, sshEnv, load, pending, cv, call>>

\* Model.Update, key "i" on the config error screen
ConfigErrorIgnore ==
    /\ m.state = "configError"
    /\ m' = [m EXCEPT !.configErrors = {}, !.state = "list"]
    /\ UNCHANGED <<file, sshEnv, load, pending, cv, call>>

Next ==
    \/ NewModel
    \/ KeyT
    \/ KeyN
    \/ \E visible \in Shown, sel \in 0 .. MaxHosts + 1 : KeyE(visible, sel)
    \/ \E visible \in Shown, sel \in 0 .. MaxHosts + 1 : KeyC(visible, sel)
    \/ \E visible \in Shown, sel \in 0 .. MaxHosts + 1 : KeyD(visible, sel)
    \/ FormEsc
    \/ FormEnter
    \/ FormSubmitted
    \/ ConfirmDeleteYes
    \/ ConfirmDeleteNo
    \/ ConfigErrorEdit
    \/ ConfigErrorIgnore

Spec == Init /\ [][Next]_vars

(***************************************************************************)
(* Properties of Client.FetchHosts (SpecClient)                            *)
(***************************************************************************)
CallDone == call.pc = "done"

\* the cached token of the call is missing or within TokenSkew of its expiry
CallTokenStale ==
    \/ call.c.jwt = ""
    \/ call.c.jwtExpiry = 0
    \/ call.now >= call.c.jwtExpiry - TokenSkew

CallHasCreds == call.username # "" /\ call.password # ""

LoginGranted(resp) == resp.kind = "ok" /\ resp.cookie

AnsweredUnauthorized(resp) == resp.kind # "connfail" /\ resp.code = 401

Fetches(log) == {i \in DOMAIN log : log[i].req = "fetch"}
Logins(log) == {i \in DOMAIN log : log[i].req = "login"}

\* C6: a FetchHosts call whose cached token is missing or expired and that
\* lacks a username or a password returns AuthError and sends no request
\* at all, neither a login nor a host fetch.
C6_NoCredsNoRequest ==
    (CallDone /\ CallTokenStale /\ ~CallHasCreds)
        => (call.out.err.kind = "AuthError" /\ call.out.log = <<>>)

C6_Witness ==
    /\ CallDone
    /\ call.c.jwt = "t0" /\ call.c.jwtExpiry = TokenSkew + 1 /\ call.now = 1
    /\ call.username = "u" /\ call.password = ""
    /\ call.out.err.kind = "AuthError"

\* the case C7 is about: a token that looks valid, credentials, first fetch 401
C7_Case ==
    /\ CallDone /\ ~CallTokenStale /\ CallHasCreds
    /\ AnsweredUnauthorized(call.srv.fetch1)

\* C7 as stated: when the fetch made with an apparently valid token is
\* answered Unauthorized and credentials are supplied, FetchHosts sends exactly
\* one login followed by exactly one retried fetch.
C7_Original ==
    C7_Case => /\ Len(call.out.log) = 3
               /\ call.out.log[1] = FetchReq(call.c.jwt)
               /\ call.out.log[2] = LoginReq
               /\ call.out.log[3].req = "fetch"

\* C7 amended: in that case FetchHosts sends exactly one login; when that
\* login succeeds it sends exactly one retried fetch, with the new token, and
\* when it fails it sends none; whatever the retried fetch answers, nothing
\* more is sent.
C7_OneReauthOneRetry ==
    C7_Case => /\ Len(call.out.log) >= 2
               /\ call.out.log[1] = FetchReq(call.c.jwt)
               /\ call.out.log[2] = LoginReq
               /\ IF LoginGranted(call.srv.login2)
                  THEN /\ Len(call.out.log) = 3
                       /\ call.out.log[3] = FetchReq(call.srv.login2.token)
                  ELSE /\ Len(call.out.log) = 2
                       /\ call.out.err # NoError

C7_Witness ==
    /\ C7_Case
    /\ LoginGranted(call.srv.login2)
    /\ AnsweredUnauthorized(call.srv.fetch2)
    /\ Len(call.out.log) = 3

\* the last request FetchHosts sent was a host fetch and it was answered 401
EndsUnauthorized ==
    /\ CallDone
    /\ call.out.log # <<>>
    /\ call.out.log[Len(call.out.log)].req = "fetch"
    /\ IF Cardinality(Fetches(call.out.log)) = 1
       THEN AnsweredUnauthorized(call.srv.fetch1)
       ELSE AnsweredUnauthorized(call.srv.fetch2)

\* C8: whenever a host fetch ends rejected as Unauthorized (no credentials,
\* or the retried fetch after the re-authentication is again Unauthorized),
\* FetchHosts returns the AuthError and not a generic error.
C8_UnauthorizedIsAuthError ==
    EndsUnauthorized => call.out.err.kind = "AuthError"

\* C9: a FetchHosts call with an expired cached token and with credentials
\* sends one login before its first host fetch and sends that fetch with the
\* token the login returned; if the login fails, no host fetch is sent.
C9_AuthBeforeFetch ==
    (CallDone /\ CallTokenStale /\ CallHasCreds)
        => /\ call.out.log # <<>>
           /\ call.out.log[1] = LoginReq
           /\ IF LoginGranted(call.srv.login1)
              THEN /\ Len(call.out.log) >= 2
                   /\ call.out.log[2] = FetchReq(call.srv.login1.token)
              ELSE /\ Fetches(call.out.log) = {}
                   /\ Cardinality(Logins(call.out.log)) = 1
                   /\ call.out.err # NoError

C9_Witness ==
    /\ CallDone
    /\ call.c.jwt = "t0" /\ call.c.jwtExpiry = TokenSkew + 1 /\ call.now = 1
    /\ CallHasCreds
    /\ LoginGranted(call.srv.login1)
    /\ call.out.log = <<LoginReq, FetchReq("t1")>>
    /\ call.out.err = NoError

\* the call went straight to the host fetch with the cached token
UsedCachedToken ==
    call.out.log # <<>> /\ call.out.log[1] = FetchReq(call.c.jwt)

\* C10: the cached token is used as it is exactly when it is non-empty, its
\* expiry is set and now < expiresAt - 300; from now = expiresAt - 300 on it
\* is treated as expired.
C10_UsableToken ==
    CallDone =>
        (UsedCachedToken <=>
            (/\ call.c.jwt # ""
             /\ call.c.jwtExpiry # 0
             /\ call.now < call.c.jwtExpiry - 300))

C10_Witness ==
    /\ CallDone
    /\ call.c.jwt = "t0" /\ call.c.jwtExpiry = 301 /\ call.now = 1
    /\ ~UsedCachedToken

(***************************************************************************)
(* Properties of the aggregation and of the store                          *)
(***************************************************************************)
\* C3: while the manual source is disabled, no step (LoadConfig, theme cycle,
\* source toggle, settings save) changes the manual hosts config.json holds,
\* so that re-enabling the source brings the same hosts back.
C3_DisabledManualUntouched ==
    [][(file.exists /\ ~file.cfg.sources.sshbuddy)
          => file'.cfg.hosts = file.cfg.hosts]_vars

\* the source tag LoadConfig gives the hosts of source i
SourceTag(i) == IF i = 1 THEN "manual" ELSE IF i = 2 THEN "ssh-config" ELSE "termix"

\* whether source i took part in the load rec
Contributes(rec, i) ==
    IF i = 1 THEN rec.sources.sshbuddy
    ELSE IF i = 2 THEN rec.sources.sshconfig /\ rec.sshOn
    ELSE rec.sources.termix /\ rec.termixOn

\* the hosts source i offered to the load rec
Offered(rec, i) ==
    IF i = 1 THEN rec.manual
    ELSE IF i = 2 THEN rec.ssh
    ELSE IF rec.answer.kind = "ok" /\ Unmarshal(rec.answer).ok
         THEN [k \in DOMAIN rec.answer.hosts |->
                  convertTermixHost(rec.answer.hosts[k])]
         ELSE <<>>

\* between the loads old and new, source i was switched from enabled to
\* disabled and nothing else changed; both loads returned a list
SwitchedOff(old, new, i) ==
    /\ old.n = 1 /\ new.n = 1 /\ old.ok /\ new.ok
    /\ Contributes(old, i) /\ ~Contributes(new, i)
    /\ \A j \in (1 .. 3) \ {i} : Contributes(old, j) = Contributes(new, j)
    /\ old.manual = new.manual /\ old.ssh = new.ssh
    /\ (Contributes(new, 3) => (old.answer = new.answer /\ old.stale = new.stale))

NotFrom(hosts, i) ==
    SeqFilter(hosts, {h \in SeqRange(hosts) : h.source # SourceTag(i)})

\* C4 as stated: after one source is switched off, the next unified list is
\* the previous list with exactly the profiles of that source removed.
C4_Original ==
    \A i \in 1 .. 3 :
        SwitchedOff(load.prev, load.cur, i)
            => load.cur.hosts = NotFrom(load.prev.hosts, i)

RECURSIVE IsSubSeq(_, _)
\* s can be obtained from t by deleting elements
IsSubSeq(s, t) ==
    IF s = <<>> THEN TRUE
    ELSE IF t = <<>> THEN FALSE
    ELSE IF Head(s) = Head(t) THEN IsSubSeq(Tail(s), Tail(t))
    ELSE IsSubSeq(s, Tail(t))

\* C4 amended: after one source is switched off, the next unified list holds
\* no profile of that source, keeps every profile of the other sources in the
\* same order, and whatever else it holds is a profile of another source
\* whose alias the disabled source had offered (it was shadowed before).
C4_SwitchOffRemovesSource ==
    \A i \in 1 .. 3 :
        SwitchedOff(load.prev, load.cur, i) =>
            /\ \A k \in DOMAIN load.cur.hosts :
                  load.cur.hosts[k].source # SourceTag(i)
            /\ IsSubSeq(NotFrom(load.prev.hosts, i), load.cur.hosts)
            /\ \A k \in DOMAIN load.cur.hosts :
                  \/ load.cur.hosts[k] \in SeqRange(load.prev.hosts)
                  \/ load.cur.hosts[k].alias \in AliasesOf(Offered(load.prev, i))

\* the manual source was switched off between two loads and an ssh-config
\* profile it had shadowed has come into the list
C4_Witness ==
    /\ SwitchedOff(load.prev, load.cur, 1)
    /\ \E k \in DOMAIN load.prev.hosts : load.prev.hosts[k].source = "manual"
    /\ \E k \in DOMAIN load.cur.hosts :
          /\ load.cur.hosts[k].source = "ssh-config"
          /\ load.cur.hosts[k].alias \in AliasesOf(load.prev.manual)

\* C5: with all three source toggles disabled LoadConfig returns an empty
\* host list and no error, whatever config.json, the SSH configuration and
\* the remote inventory hold.
C5_AllDisabledEmpty ==
    (/\ load.cur.n = 1
     /\ ~load.cur.sources.sshbuddy /\ ~load.cur.sources.sshconfig /\ ~load.cur.sources.termix)
        => (load.cur.ok /\ load.cur.hosts = <<>> /\ load.cur.err = NoError)

C5_Witness ==
    /\ load.cur.n = 1
    /\ ~load.cur.sources.sshbuddy /\ ~load.cur.sources.sshconfig /\ ~load.cur.sources.termix
    /\ load.cur.manual # <<>> /\ load.cur.ssh # <<>> /\ load.cur.termixOn /\ load.cur.sshOn
    /\ load.cur.hosts = <<>>

(***************************************************************************)
(* Properties of the host list (Spec)                                      *)
(***************************************************************************)
\* C2: in every reachable state of the application no two hosts of the
\* unified host list share an alias
C2_UniqueAliases ==
    m.state # "none" =>
        \A a \in AliasesOf(m.config.hosts) : CountAlias(m.config.hosts, a) = 1

\* the sources of the last LoadConfig call that were enabled and offered alias a
Offering(rec, a) == {i \in 1 .. 3 : Contributes(rec, i) /\ a \in AliasesOf(Offered(rec, i))}

\* C1: for an alias offered by more than one enabled source, the list LoadConfig
\* returned holds exactly one host with that alias, tagged with the source of
\* highest precedence among those offering it
C1_OneHostPerAlias ==
    (load.cur.n = 1 /\ load.cur.ok) =>
        \A a \in AliasesOf(load.cur.hosts) :
            Cardinality(Offering(load.cur, a)) > 1 =>
                /\ CountAlias(load.cur.hosts, a) = 1
                /\ \A i \in DOMAIN load.cur.hosts :
                      load.cur.hosts[i].alias = a =>
                          load.cur.hosts[i].source =
                              SourceTag(CHOOSE k \in Offering(load.cur, a) :
                                          \A j \in Offering(load.cur, a) : k <= j)

(***************************************************************************)
(* Errors of the aggregation (SpecAgg)                                     *)
(***************************************************************************)
\* the last LoadConfig call ran its Termix stage
TermixTried == load.cur.n = 1 /\ Contributes(load.cur, 3)

\* FetchHosts("", "") of the last LoadConfig call had to give up for want of
\* credentials: the cached token was stale, or the fetch was answered 401
TermixNeedsAuth ==
    load.cur.stale \/ AnsweredUnauthorized(load.cur.answer)

\* the fetch of the last LoadConfig call failed otherwise: no connection, a
\* status other than 200, or a 200 body that is not JSON
TermixFailedOtherwise ==
    /\ ~TermixNeedsAuth
    /\ \/ load.cur.answer.kind = "connfail"
       \/ load.cur.answer.code # 200
       \/ ~Unmarshal(load.cur.answer).ok

\* C11: when the Termix fetch of LoadConfig fails for want of authentication,
\* LoadConfig returns the AuthError itself, not wrapped; every other Termix
\* failure is returned wrapped with the hint naming the Termix configuration
C11_AuthErrorUnwrapped ==
    TermixTried =>
        /\ TermixNeedsAuth =>
              /\ ~load.cur.ok
              /\ load.cur.err \in
                    {AuthError("termix: authentication required - token expired or missing"),
                     AuthError("termix: authentication required - token invalid")}
        /\ TermixFailedOtherwise =>
              /\ ~load.cur.ok
              /\ load.cur.err.kind = "error"
              /\ load.cur.err.wrapped

C11_Witness ==
    /\ TermixTried
    /\ ~load.cur.stale /\ AnsweredUnauthorized(load.cur.answer)
    /\ load.cur.err = AuthError("termix: authentication required - token invalid")

\* C12: when the Termix fetch of LoadConfig fails, the hosts of the enabled
\* manual and SSH config sources are still in what LoadConfig hands to its
\* caller
C12_LocalHostsSurviveRemoteFailure ==
    (TermixTried /\ (TermixNeedsAuth \/ TermixFailedOtherwise)) =>
        \A i \in 1 .. 2 :
            Contributes(load.cur, i) =>
                AliasesOf(Offered(load.cur, i)) \subseteq AliasesOf(load.cur.hosts)

(***************************************************************************)
(* Response decoding of Client.FetchHosts (SpecClient)                     *)
(***************************************************************************)
\* the call's last request was a host fetch
EndsWithFetch ==
    /\ CallDone
    /\ call.out.log # <<>>
    /\ call.out.log[Len(call.out.log)].req = "fetch"

\* the answer to the last host fetch of the call
LastFetchAnswer ==
    IF Cardinality(Fetches(call.out.log)) = 1 THEN call.srv.fetch1 ELSE call.srv.fetch2

\* C13: a host fetch answered 200 with a body that is not a JSON array of
\* host records makes FetchHosts return the invalid-JSON error, which is
\* neither the AuthError nor the transport nor the status error, and never a
\* successful empty list
C13_InvalidBodyIsError ==
    (/\ EndsWithFetch
     /\ LastFetchAnswer.kind = "ok" /\ LastFetchAnswer.code = 200
     /\ LastFetchAnswer.body # "array")
        => call.out.err = GenericError("termix API returned invalid JSON")

(***************************************************************************)
(* Read-only sources in the host list (Spec)                               *)
(***************************************************************************)
\* the hosts of a list that carry the source tag
TaggedHosts(hosts, tag) == SeqFilter(hosts, {h \in SeqRange(hosts) : h.source = tag})

\* C14: no operation of the host list (edit, delete, form submit) changes or
\* removes a host tagged termix; only a new start recomputes them
C14_RemoteImmutable ==
    [][NewModel \/ TaggedHosts(m'.config.hosts, "termix")
                      = TaggedHosts(m.config.hosts, "termix")]_vars

\* C15: pressing e or d with an ssh-config host selected changes neither the
\* UI state nor the host list, and config.json never holds a host tagged
\* ssh-config
C15_SSHConfigReadOnly ==
    [][/\ \A visible \in Shown, sel \in 0 .. MaxHosts + 1 :
            ((KeyE(visible, sel) \/ KeyD(visible, sel))
               /\ visible[sel + 1].source = "ssh-config")
                => UNCHANGED <<m, file>>
       /\ TaggedHosts(file'.cfg.hosts, "ssh-config") = <<>>]_vars

C15_Witness ==
    /\ m.state = "list"
    /\ TaggedHosts(m.config.hosts, "ssh-config") # <<>>
    /\ TaggedHosts(m.config.hosts, "manual") # <<>>
    /\ file.exists /\ file.cfg.theme = "blue"

(***************************************************************************)
(* SaveConfig and the reload of what it wrote (SpecSave)                   *)
(***************************************************************************)
\* Source values a host handed to SaveConfig can carry: LoadConfigRaw leaves
\* the hosts of a file without source untagged
SaveTags == {"manual", "", "ssh-config", "termix"}

SaveHosts == {Host(a, "1.1.1.1", "u", "", t) : a \in {"a", "b"}, t \in SaveTags}

\* host lists of at most MaxHosts hosts
SaveLists == UNION {[1 .. n -> SaveHosts] : n \in 0 .. MaxHosts}

\* configs handed to SaveConfig
SaveInputs ==
    {Config(h, th, [sshbuddy |-> s1, sshconfig |-> s2, termix |-> s3], tx,
            [enabled |-> s2, configPath |-> ""]) :
        h \in SaveLists, th \in {"", "blue"}, s1 \in BOOLEAN, s2 \in BOOLEAN,
        s3 \in BOOLEAN, tx \in AggTermix}

InitSave ==
    /\ Idle
    /\ call \in [pc : {"save"}, config : SaveInputs]

\* SaveConfig(&config)
CallSaveConfig ==
    /\ call.pc = "save"
    /\ file' = SaveConfig(call.config)
    /\ call' = [call EXCEPT !.pc = "saved"]
    /\ UNCHANGED <<sshEnv, load, m, pending, cv>>

\* what the Termix server answers to the load that follows the save
SaveAnswers ==
    {FetchAnswer("connfail", 0, "text", <<>>),
     FetchAnswer("ok", 200, "array", <<TermixHost("b", "3.3.3.2", 22)>>)}

\* the file just written is loaded again, by LoadConfigRaw and by LoadConfig
CallLoadSaved ==
    /\ call.pc = "saved"
    /\ \E answer \in SaveAnswers :
          LET r == LoadConfig(file, sshEnv, 0, Server(answer))
          IN  /\ call' = [pc |-> "loaded", config |-> call.config,
                          raw |-> LoadConfigRaw(file).hosts,
                          ok |-> r.ok, hosts |-> r.config.hosts]
              /\ file' = r.file
    /\ UNCHANGED <<sshEnv, load, m, pending, cv>>

NextSave == CallSaveConfig \/ CallLoadSaved

SpecSave == InitSave /\ [][NextSave]_vars

\* the rest of a config: everything but the hosts
Settings(config) == [config EXCEPT !.hosts = <<>>]

\* C16 as stated: the hosts SaveConfig writes are exactly the hosts of its
\* input tagged manual, in their order, and theme, toggles and Termix
\* settings are written as given
C16_Original ==
    call.pc = "saved" =>
        /\ file.cfg.hosts = TaggedHosts(call.config.hosts, "manual")
        /\ Settings(file.cfg) = Settings(call.config)

\* C16 amended: the hosts SaveConfig writes are exactly the hosts of its input
\* tagged neither ssh-config nor termix (manual or untagged), in their
\* order, and theme, toggles and Termix settings are written as given
C16_SavedSubsequence ==
    call.pc = "saved" =>
        /\ file.exists
        /\ file.cfg.hosts =
              SeqFilter(call.config.hosts,
                        {h \in SeqRange(call.config.hosts) :
                            h.source \notin {"ssh-config", "termix"}})
        /\ Settings(file.cfg) = Settings(call.config)

C16_Witness ==
    /\ call.pc = "saved"
    /\ Len(call.config.hosts) = 2
    /\ call.config.hosts[1].source = "termix"
    /\ call.config.hosts[2].source = "manual"
    /\ Len(file.cfg.hosts) = 1

\* the fields of a host that are persisted whatever its tag
Persisted(hosts) ==
    [i \in DOMAIN hosts |->
        [alias |-> hosts[i].alias, hostname |-> hosts[i].hostname,
         user |-> hosts[i].user, port |-> hosts[i].port]]

\* the save was handed manual profiles only, and at least one
SavedManualList ==
    /\ call.pc = "loaded"
    /\ call.config.hosts # <<>>
    /\ TaggedHosts(call.config.hosts, "manual") = call.config.hosts

StoreMalformed == file.exists /\ file.malformed

\* C18: LoadConfig on a malformed config.json returns the parse error and
\* no config; NewModel then shows the config error screen with that error,
\* and the load leaves config.json, its hosts included, as it was
C18_CorruptStoreSurfaced ==
    [][(NewModel /\ StoreMalformed) =>
          /\ \A now \in Times, answer \in UIAnswers :
                LET r == LoadConfig(file, sshEnv, now, Server(answer))
                IN  ~r.ok /\ r.err = CorruptStore /\ r.file = file
          /\ m'.state = "configError"
          /\ m'.configErrors = {[field |-> "Config", index |-> 0]}
          /\ file' = file
          /\ file'.cfg.hosts # <<>>]_vars

C18_Witness ==
    /\ StoreMalformed
    /\ file.cfg.hosts # <<>>
    /\ m.state = "configError"
    /\ m.config = ZeroConfig

(***************************************************************************)
(* Reachability probes (package tui, ssh.go and model.go)                  *)
(***************************************************************************)
\* strings.ToLower on the letters the host and user names below are written
\* with
LowerChar(c) ==
    IF c = "H" THEN "h" ELSE IF c = "U" THEN "u" ELSE c

RECURSIVE ToLower(_)
ToLower(s) ==
    IF s = "" THEN ""
    ELSE LowerChar(SubSeq(s, 1, 1)) \o ToLower(SubSeq(s, 2, Len(s)))

\* a GetHostKey that keeps the case of its input
GetHostKeyExact(host) == host.hostname \o ":" \o host.user

\* GetHostKey
GetHostKey(host) == ToLower(host.hostname \o ":" \o host.user)

\* strings.IndexAny(s, " \n\r"), 1-based, 0 when absent
IndexAnyBlank(s) ==
    LET at == {i \in 1 .. Len(s) : SubSeq(s, i, i) \in {" ", "\n", "\r"}}
    IN  IF at = {} THEN 0 ELSE CHOOSE i \in at : \A j \in at : i <= j

\* strings.HasSuffix
HasSuffix(s, suffix) ==
    /\ Len(s) >= Len(suffix)
    /\ SubSeq(s, Len(s) - Len(suffix) + 1, Len(s)) = suffix

\* the time PingHost reads from ping's output
ParsePingTime(output) ==
    LET idx == Index(output, "time=")
        timeStr == SubSeq(output, idx + 5, Len(output))
        endIdx == IndexAnyBlank(timeStr)
        timeValue == TrimSpace(SubSeq(timeStr, 1, endIdx - 1))
    IN  IF idx = 0 \/ endIdx = 0 THEN ""
        ELSE IF HasSuffix(timeValue, "ms") THEN timeValue
        ELSE timeValue \o "ms"

\* PingResultMsg
PingResultMsg(host, status, pingTime) ==
    [host |-> host, status |-> status, pingTime |-> pingTime]

\* how one run of ping -c 1 -W 1 can end, its output cut down to the part
\* PingHost looks at
PingRuns ==
    {[err |-> TRUE, output |-> ""],
     [err |-> TRUE, output |-> "0 received"],
     [err |-> TRUE, output |-> "time=9 ms"],
     [err |-> FALSE, output |-> "time=7"],
     [err |-> FALSE, output |-> "time=12.3 ms"],
     [err |-> FALSE, output |-> "time=5ms ttl"],
     [err |-> FALSE, output |-> "1 received"]}

\* a PingHost that reads the time whatever the exit status
PingOutcomeAnyExit(run) ==
    [status |-> ~run.err, pingTime |-> ParsePingTime(run.output)]

\* what PingHost makes of a run: Status and PingTime
PingOutcome(run) ==
    [status |-> ~run.err,
     pingTime |-> IF run.err THEN "" ELSE ParsePingTime(run.output)]

\* the runs of ping, each with what PingHost makes of it
PingOutcomes == {[run |-> run, outcome |-> PingOutcome(run)] : run \in PingRuns}

\* the message the command PingHost(host) returns when ping ended as outcome
PingHost(host, outcome) == PingResultMsg(host, outcome.status, outcome.pingTime)

\* the messages the command PingHost(host) can return
PingResults(host) == {PingHost(host, ro.outcome) : ro \in PingOutcomes}

\* a StartPingAll that probes the first host only
StartPingFirst(hosts, b) ==
    [i \in DOMAIN hosts \cap {1} |-> [batch |-> b, idx |-> i, host |-> hosts[i]]]

\* StartPingAll(hosts) of batch b: one PingHost command per host
StartPingAll(hosts, b) ==
    [i \in DOMAIN hosts |-> [batch |-> b, idx |-> i, host |-> hosts[i]]]

\* a map with k set to v
Put(f, k, v) == [x \in DOMAIN f \cup {k} |-> IF x = k THEN v ELSE f[x]]

EmptyMap == [x \in {} |-> FALSE]

\* m.pinging[key] = true for every host of the list
RECURSIVE MarkPinging(_, _)
MarkPinging(pinging, hosts) ==
    IF hosts = <<>> THEN pinging
    ELSE MarkPinging(Put(pinging, GetHostKey(Head(hosts)), TRUE), Tail(hosts))

\* a PingResultMsg handler that keeps the first result of a host
KeepFirstResult(model, msg) ==
    LET key == GetHostKey(msg.host)
    IN  IF key \in DOMAIN model.pingStatus
        THEN [model EXCEPT !.pinging = Put(model.pinging, key, FALSE)]
        ELSE [model EXCEPT !.pingStatus = Put(model.pingStatus, key, msg.status),
                           !.pingTimes = Put(model.pingTimes, key, msg.pingTime),
                           !.pinging = Put(model.pinging, key, FALSE)]

\* a PingResultMsg handler that leaves the key marked as being probed
KeepPinging(model, msg) ==
    LET key == GetHostKey(msg.host)
    IN  [model EXCEPT !.pingStatus = Put(model.pingStatus, key, msg.status),
                      !.pingTimes = Put(model.pingTimes, key, msg.pingTime)]

\* a PingResultMsg handler that also writes the probed host into the list
StoreProbedHost(model, msg) ==
    LET key == GetHostKey(msg.host)
    IN  [model EXCEPT !.pingStatus = Put(model.pingStatus, key, msg.status),
                      !.pingTimes = Put(model.pingTimes, key, msg.pingTime),
                      !.pinging = Put(model.pinging, key, FALSE),
                      !.config.hosts = <<msg.host>> \o Tail(model.config.hosts)]

\* Model.Update, case PingResultMsg
OnPingResult(model, msg) ==
    LET key == GetHostKey(msg.host)
    IN  [model EXCEPT !.pingStatus = Put(model.pingStatus, key, msg.status),
                      !.pingTimes = Put(model.pingTimes, key, msg.pingTime),
                      !.pinging = Put(model.pinging, key, FALSE)]

\* hosts whose keys are equal, differ in case only or differ, under one
\* alias or two
PingHostnames == {"h1", "H1", "h2"}
PingHosts ==
    {Host("a", hn, "u", "", "manual") : hn \in PingHostnames}
    \cup {Host("b", "h2", "u", "", "manual")}
PingHostLists == UNION {[1 .. n -> PingHosts] : n \in 0 .. MaxHosts}

\* the accounting of probes: batches started, the hosts of each batch, the
\* positions whose result was delivered and how many results each batch got,
\* the last result delivered for each key, the last message delivered and
\* the run of ping it came from
NoProbes ==
    [batches |-> 0,
     hosts |-> [b \in 1 .. MaxBatches |-> <<>>],
     got |-> [b \in 1 .. MaxBatches |-> {}],
     count |-> [b \in 1 .. MaxBatches |-> 0],
     last |-> EmptyMap,
     msg |-> [status |-> FALSE],
     run |-> [err |-> FALSE, output |-> "none"]]

\* the model NewModel returns, before the runtime calls Init: on the config
\* error screen when the hosts do not validate, in the list otherwise
InitPing ==
    /\ file = NoFile
    /\ sshEnv = [err |-> TRUE, hosts |-> <<>>, user |-> ""]
    /\ load = NoLoads
    /\ cv = NoView
    /\ pending = <<>>
    /\ call = NoProbes
    /\ \E hosts \in PingHostLists :
         LET cfg == [DefaultConfig EXCEPT !.hosts = hosts]
         IN  m = [state |-> IF ConfigValidate(cfg) # {} THEN "configError" ELSE "list",
                  config |-> cfg,
                  form |-> NewFormModel,
                  editingIndex |-> -1,
                  deleteConfirmHost |-> NoHost,
                  deleteConfirmIdx |-> 0,
                  configErrors |-> ConfigValidate(cfg),
                  pingStatus |-> EmptyMap, pinging |-> EmptyMap,
                  pingTimes |-> EmptyMap]

\* a probe-all of the model's hosts is started
StartBatch ==
    /\ call.batches < MaxBatches
    /\ m' = [m EXCEPT !.pinging = MarkPinging(m.pinging, m.config.hosts)]
    /\ pending' = pending \o StartPingAll(m.config.hosts, call.batches + 1)
    /\ call' = [call EXCEPT !.batches = @ + 1,
                            !.hosts[call.batches + 1] = m.config.hosts]
    /\ UNCHANGED <<file, sshEnv, load, cv>>

\* Model.Init: the probe-all at startup
ModelInit ==
    /\ call.batches = 0
    /\ StartBatch

\* Model.Update, key "p" in the list
KeyP ==
    /\ call.batches > 0
    /\ m.state = "list"
    /\ StartBatch

\* the command at position i finishes and Model.Update handles its message
PingResult(i) ==
    /\ i \in DOMAIN pending
    /\ \E ro \in PingOutcomes :
         LET cmd == pending[i]
             msg == PingHost(cmd.host, ro.outcome)
         IN  /\ m' = OnPingResult(m, msg)
             /\ call' = [call EXCEPT
                            !.got[cmd.batch] = @ \cup {cmd.idx},
                            !.count[cmd.batch] = @ + 1,
                            !.last = Put(call.last, GetHostKey(msg.host), msg),
                            !.msg = msg,
                            !.run = ro.run]
    /\ pending' = [j \in 1 .. Len(pending) - 1 |->
                     IF j < i THEN pending[j] ELSE pending[j + 1]]
    /\ UNCHANGED <<file, sshEnv, load, cv>>

ProbeSlots == 1 .. MaxBatches * MaxHosts

NextPing ==
    \/ ModelInit
    \/ KeyP
    \/ ConfigErrorIgnore
    \/ \E i \in ProbeSlots : PingResult(i)

SpecPing == InitPing /\ [][NextPing]_vars

\* every command that was started finishes: ping -c 1 -W 1 ends by itself,
\* and the runtime hands each result to Model.Update
SpecPingFair ==
    /\ InitPing /\ [][NextPing]_vars
    /\ WF_vars(ModelInit)
    /\ \A i \in ProbeSlots : WF_vars(PingResult(i))

\* batch b has had one result for each of its hosts and no other
BatchComplete(b) ==
    /\ call.count[b] = Len(call.hosts[b])
    /\ call.got[b] = DOMAIN call.hosts[b]

\* C19: no probe-all over K hosts ever delivers more than K results, and in
\* the end every probe-all that was started has delivered exactly K results,
\* one for each host of its list
C19_ProbeAllDelivers ==
    /\ [](\A b \in 1 .. MaxBatches : call.count[b] <= Len(call.hosts[b]))
    /\ <>[](/\ call.batches >= 1
            /\ \A b \in 1 .. MaxBatches : call.batches >= b => BatchComplete(b))

C19_Witness ==
    /\ call.batches = MaxBatches
    /\ \A b \in 1 .. MaxBatches : BatchComplete(b) /\ Len(call.hosts[b]) = MaxHosts
    /\ pending = <<>>

\* C20: after any deliveries for a key, in any order, the stored status and
\* time of the key are those of the result delivered last for it, and
\* delivering a result a second time right after the first changes nothing
C20_LastResultWins ==
    /\ DOMAIN m.pingStatus = DOMAIN call.last
    /\ DOMAIN m.pingTimes = DOMAIN call.last
    /\ \A k \in DOMAIN call.last :
         /\ m.pingStatus[k] = call.last[k].status
         /\ m.pingTimes[k] = call.last[k].pingTime
    /\ \A i \in DOMAIN m.config.hosts :
         \A msg \in PingResults(m.config.hosts[i]) :
            OnPingResult(OnPingResult(m, msg), msg) = OnPingResult(m, msg)

C20_Witness ==
    /\ call.count[1] = 2
    /\ call.count[2] = 1
    /\ Cardinality(DOMAIN call.last) = 1
    /\ call.hosts[1][1].hostname # call.hosts[1][2].hostname
    /\ \E k \in DOMAIN call.last :
         /\ call.last[k].status
         /\ call.last[k].pingTime = "12.3ms"
         /\ m.pingTimes[k] = "12.3ms"

\* a result has been delivered
Delivered == call.last # EmptyMap

\* C21: every probe that ends yields a message; one whose command failed or
\* could not start reports unreachable and no time, whatever it printed; one
\* that succeeded reports reachable, with no time when the output holds no
\* time= value
C21_ProbeAlwaysYieldsResult ==
    Delivered =>
        /\ call.msg.status = ~call.run.err
        /\ call.run.err => call.msg.pingTime = ""
        /\ Index(call.run.output, "time=") = 0 => call.msg.pingTime = ""

C21_Witness ==
    /\ Delivered
    /\ call.run = [err |-> TRUE, output |-> "time=9 ms"]
    /\ ~call.msg.status
    /\ call.msg.pingTime = ""

\* the part of the model and of the store a probe result has no business with
OutsideProbeMaps ==
    <<m.config, m.state, m.form, m.editingIndex, m.deleteConfirmHost,
      m.deleteConfirmIdx, m.configErrors, file, sshEnv>>

\* the maps restricted to the keys other than k
OtherKeys(f, k) == [x \in DOMAIN f \ {k} |-> f[x]]

\* C22: the step that handles a probe result changes the status, time and
\* in-progress entry of the result's key and nothing else: not the hosts,
\* the UI state, the editing and delete-confirmation fields or config.json,
\* nor the entries of other keys
C22_ProbeResultFrame ==
    [][(\E i \in ProbeSlots : PingResult(i)) =>
          /\ UNCHANGED OutsideProbeMaps
          /\ LET k == GetHostKey(call'.msg.host)
             IN  /\ OtherKeys(m'.pingStatus, k) = OtherKeys(m.pingStatus, k)
                 /\ OtherKeys(m'.pingTimes, k) = OtherKeys(m.pingTimes, k)
                 /\ OtherKeys(m'.pinging, k) = OtherKeys(m.pinging, k)]_vars

C22_Witness ==
    /\ Delivered
    /\ m.state = "configError"
    /\ Len(m.config.hosts) = 2
    /\ m.config.hosts[1].hostname = "h1" /\ m.config.hosts[2].hostname = "h2"
    /\ call.msg.host = m.config.hosts[2]
    /\ DOMAIN m.pingStatus = {"h1:u", "h2:u"}

(***************************************************************************)
(* GetHostKey on pairs of hosts (SpecKey)                                  *)
(***************************************************************************)
KeyHosts ==
    {Host(al, hn, us, po, so) :
        al \in {"a", "b"}, hn \in {"h", "H", "h:u"}, us \in {"u", "U", "u:u"},
        po \in {"", "2222"}, so \in {"manual", "termix"}}

InitKey ==
    /\ Idle
    /\ call \in [pc : {"key"}, h1 : KeyHosts, h2 : KeyHosts]

\* GetHostKey is applied to both hosts
CallGetHostKey ==
    /\ call.pc = "key"
    /\ call' = [pc |-> "keyed", h1 |-> call.h1, h2 |-> call.h2,
                k1 |-> GetHostKey(call.h1), k2 |-> GetHostKey(call.h2)]
    /\ UNCHANGED <<file, sshEnv, load, m, pending, cv>>

NextKey == CallGetHostKey

SpecKey == InitKey /\ [][NextKey]_vars

\* the lower-cased (hostname, user) pair of a host
LoweredPair(host) == <<ToLower(host.hostname), ToLower(host.user)>>

\* neither the hostname nor the user of the host holds the separator
NoSeparator(host) ==
    Index(host.hostname, ":") = 0 /\ Index(host.user, ":") = 0

Loaded == load.cur.n = 1 /\ load.cur.ok

\* the hosts of the list that have no alias
NoAlias(hosts) == SeqFilter(hosts, {h \in SeqRange(hosts) : h.alias = ""})

\* C24: every host without an alias that an enabled source offers is in the
\* unified list, whatever the other sources and the source itself offer
C24_EmptyAliasPassedThrough ==
    Loaded =>
        \A i \in 1 .. 3 :
            Contributes(load.cur, i) =>
                Len(NoAlias(TaggedHosts(load.cur.hosts, SourceTag(i))))
                    = Len(NoAlias(Offered(load.cur, i)))

\* the hosts of the unified list that came from source i
Group(i) == TaggedHosts(load.cur.hosts, SourceTag(i))

\* C25: the list LoadConfig returns is its manual hosts, then its ssh-config
\* hosts, then its Termix hosts, each group in the order its source gave them
C25_SourceOrder ==
    Loaded =>
        /\ load.cur.hosts = Group(1) \o Group(2) \o Group(3)
        /\ \A i \in 1 .. 3 :
              IsSubSeq(Persisted(Group(i)), Persisted(Offered(load.cur, i)))

C25_Witness ==
    /\ Loaded
    /\ AliasesOf(Group(1)) = {"a", "b"}
    /\ AliasesOf(Group(2)) = {"c"}
    /\ AliasesOf(Group(3)) = {"d"}
    /\ Len(load.cur.hosts) = 4

\* the toggle of source i is on, a base URL being set for Termix
ToggleOn(rec, i) ==
    IF i = 1 THEN rec.sources.sshbuddy
    ELSE IF i = 2 THEN rec.sources.sshconfig
    ELSE rec.sources.termix /\ rec.termixURL

\* C26: a source whose toggle is on has every alias it offers in the list
\* LoadConfig returns, and a source whose toggle is off has no host in it,
\* whatever the other toggles and settings are
C26_ToggleAloneGates ==
    Loaded =>
        \A i \in 1 .. 3 :
            /\ ToggleOn(load.cur, i)
                  => AliasesOf(Offered(load.cur, i)) \subseteq AliasesOf(load.cur.hosts)
            /\ ~ToggleOn(load.cur, i) => Group(i) = <<>>

(***************************************************************************)
(* Ports of the unified list (SpecAgg)                                     *)
(***************************************************************************)
\* ExecuteSSH: the port handed to ssh -p
ConnectPort(host) == IF host.port = "" THEN "22" ELSE host.port

\* item.Description: the port shown after user@hostname
ShownPort(host) == IF host.port = "" THEN "22" ELSE host.port

\* the record host h of the unified list was made from gives no port: the
\* stored host has an empty Port, the Host block of ~/.ssh/config no Port
\* line, the Termix record no port (the zero int)
SourcePortAbsent(h) ==
    IF h.source = "manual"
    THEN \E k \in DOMAIN load.cur.manual :
            MarkManual(load.cur.manual)[k] = h /\ load.cur.manual[k].port = ""
    ELSE IF h.source = "ssh-config"
    THEN \E k \in DOMAIN sshEnv.hosts :
            /\ MarkSSHConfig(<<ConvertToHost(sshEnv.hosts[k], sshEnv.user)>>)[1] = h
            /\ sshEnv.hosts[k].port = ""
    ELSE \E k \in DOMAIN load.cur.answer.hosts :
            /\ convertTermixHost(load.cur.answer.hosts[k]) = h
            /\ load.cur.answer.hosts[k].port = 0

\* C27: every host of the unified list whose source record gives no port is
\* connected to on port 22 and shown with port 22
C27_DefaultPort ==
    Loaded =>
        \A k \in DOMAIN load.cur.hosts :
            SourcePortAbsent(load.cur.hosts[k]) =>
                /\ ConnectPort(load.cur.hosts[k]) = "22"
                /\ ShownPort(load.cur.hosts[k]) = "22"

(***************************************************************************)
(* Credentials and config.json (SpecCfg)                                   *)
(***************************************************************************)
\* the user names and passwords the prompt can be given
Credentials == (PromptUsernames \cup PromptPasswords) \ {"", " "}

\* the strings config.json holds
StoredStrings ==
    {file.cfg.theme, file.cfg.termix.baseURL, file.cfg.termix.jwt,
     file.cfg.ssh.configPath}
    \cup UNION {{h.alias, h.hostname, h.user, h.port} : h \in SeqRange(file.cfg.hosts)}

LoggedInOnce ==
    /\ CallDone /\ CallTokenStale /\ CallHasCreds
    /\ LoginGranted(call.srv.login1)
    /\ ~AnsweredUnauthorized(call.srv.fetch1)

\* C29: after a successful Authenticate the client holds the token of the
\* cookie and the expiry now + MaxAge when the cookie has a positive MaxAge,
\* the cookie's Expires when it has only that, and now + 24 hours when it
\* has neither
C29_ExpiryFromServer ==
    LoggedInOnce =>
        LET resp == call.srv.login1
        IN  /\ call.out.c.jwt = resp.token
            /\ resp.maxAge > 0 => call.out.c.jwtExpiry = call.now + resp.maxAge
            /\ (resp.maxAge = 0 /\ resp.expires # 0)
                  => call.out.c.jwtExpiry = resp.expires
            /\ (resp.maxAge = 0 /\ resp.expires = 0)
                  => call.out.c.jwtExpiry = call.now + 24 * 3600

C29_Witness ==
    /\ LoggedInOnce
    /\ call.now = 1
    /\ call.srv.login1.maxAge > 0 /\ call.srv.login1.expires # 0
    /\ call.out.c.jwtExpiry = 1 + call.srv.login1.maxAge
    /\ call.out.err = NoError

\* C30: a call made with a cached token that is present and not near its
\* expiry starts with the host fetch carrying that token, logs in only when
\* that fetch is answered 401, and after an answer of 200 leaves the
\* client's token and expiry as they were
C30_ValidTokenUsedDirectly ==
    (CallDone /\ ~CallTokenStale) =>
        /\ call.out.log # <<>>
        /\ call.out.log[1] = FetchReq(call.c.jwt)
        /\ ~AnsweredUnauthorized(call.srv.fetch1) => Logins(call.out.log) = {}
        /\ (call.srv.fetch1.kind = "ok" /\ call.srv.fetch1.code = 200)
              => /\ call.out.c.jwt = call.c.jwt
                 /\ call.out.c.jwtExpiry = call.c.jwtExpiry

C30_Witness ==
    /\ CallDone /\ ~CallTokenStale /\ CallHasCreds
    /\ call.srv.fetch1.kind = "ok" /\ call.srv.fetch1.body = "array"
    /\ LoginGranted(call.srv.login1) /\ LoginGranted(call.srv.login2)
    /\ call.out.log = <<FetchReq("t0")>>
    /\ call.out.err = NoError
    /\ call.out.hosts # <<>>

(***************************************************************************)
(* What the credential prompt writes (SpecCfg)                             *)
(***************************************************************************)
\* the credential prompt's enter key is handled
PromptEntered == \E u \in PromptUsernames, p \in PromptPasswords : TermixAuthEnter(u, p)

\* config.json but for the token and its expiry
BesideToken(f) == [f EXCEPT !.cfg.termix.jwt = "", !.cfg.termix.jwtExpiry = 0]

\* C31: the step of the credential prompt changes nothing of config.json but
\* the token and its expiry: hosts, toggles, theme, base URL and SSH settings
\* stay, with the manual source enabled or not
C31_AuthWritesTokenOnly ==
    [][PromptEntered => BesideToken(file') = BesideToken(file)]_vars

C31_Witness ==
    /\ file.exists
    /\ ~file.cfg.sources.sshbuddy
    /\ file.cfg.hosts # <<>>
    /\ file.cfg.termix.jwt = "t1"

(***************************************************************************)
(* The credential prompt alone, its outcome kept (SpecAuth)                *)
(***************************************************************************)
\* tokens config.json holds before the prompt: none, or one about to expire
AuthTokens == {[jwt |-> "", jwtExpiry |-> 0], [jwt |-> "t0", jwtExpiry |-> TokenSkew + 1]}

AuthFiles ==
    {NoFile} \cup
    {SaveConfig([DefaultConfig EXCEPT
                   !.hosts = h, !.sources.sshbuddy = manual,
                   !.sources.termix = on,
                   !.termix = [enabled |-> on, baseURL |-> url,
                               jwt |-> t.jwt, jwtExpiry |-> t.jwtExpiry]]) :
       h \in {<<>>} \cup StoredLists, manual \in BOOLEAN, on \in BOOLEAN,
       url \in BaseURLs, t \in AuthTokens}

InitAuth ==
    /\ file \in AuthFiles
    /\ sshEnv = [err |-> FALSE, hosts |-> <<>>, user |-> ""]
    /\ load = NoLoads
    /\ m = [state |-> "none"]
    /\ pending = <<>>
    /\ cv = NoView
    /\ call = NoCall

\* the enter key of the prompt, the login's answer and the outcome kept
AuthEnter(typedName, password) ==
    \E now \in Times, resp \in PromptLoginAnswers :
        LET r == TermixAuthUpdate(file, typedName, password, now, resp)
        IN  /\ file' = r.file
            /\ call' = [pc |-> "auth", called |-> r.called, resp |-> resp,
                        now |-> now, before |-> file, authError |-> r.authError]
            /\ UNCHANGED <<sshEnv, load, m, pending, cv>>

\* TermixAuthSuccessMsg: the prompt succeeded and the config is loaded again,
\* the clock where it was at the login or one second on
AuthReload ==
    /\ call.pc = "auth"
    /\ call.called
    /\ call.authError = ""
    /\ \E now \in {t \in Times : t >= call.now}, answer \in UIAnswers :
         LET r == LoadConfig(file, sshEnv, now, Server(answer))
         IN  /\ file' = r.file
             /\ call' = [pc |-> "reloaded", called |-> TRUE, resp |-> call.resp,
                         now |-> now, before |-> file, authError |-> "",
                         ok |-> r.ok, err |-> r.err]
    /\ UNCHANGED <<sshEnv, load, m, pending, cv>>

NextAuth ==
    \/ \E u \in PromptUsernames, p \in PromptPasswords : AuthEnter(u, p)
    \/ AuthReload

SpecAuth == InitAuth /\ [][NextAuth]_vars

\* login answers Authenticate turns into an error: no connection, a status
\* other than 200, no jwt cookie
FailedLogins == {resp \in PromptLoginAnswers : resp.kind # "ok" \/ ~resp.cookie}

\* clients holding a cached token
CachingClients ==
    {NewClient("https://termix", t, e) : t \in CachedTokens, e \in CachedExpiries}

\* C32: a login that fails (connection error, status other than 200, no jwt
\* cookie) leaves the client's cached token and expiry as they were, and the
\* credential prompt then shows an error and config.json is not written
C32_FailedAuthWritesNothing ==
    call.pc = "auth" /\ call.called /\ call.resp \in FailedLogins
        => /\ call.authError # ""
           /\ file = call.before
           /\ \A c \in CachingClients :
                 Authenticate(c, "u", "p", call.now, call.resp).c = c

C32_Witness ==
    /\ call.pc = "auth"
    /\ call.called
    /\ call.resp \in FailedLogins
    /\ file.exists
    /\ file.cfg.termix.enabled
    /\ file.cfg.termix.baseURL # ""
    /\ file.cfg.termix.jwt = "t1"

(***************************************************************************)
(* Deleting and editing in the list (Spec)                                 *)
(***************************************************************************)
\* hosts without its item i (from 1)
RemoveAt(hosts, i) == SubSeq(hosts, 1, i - 1) \o SubSeq(hosts, i + 1, Len(hosts))

\* C33: while the program runs, the host list loses a host only by "y" in the
\* delete confirmation, and the host lost is the one "d" was pressed on; "n"
\* or esc leads back to the list, host list and config.json as they were
C33_DeleteOnlyConfirmed ==
    [][/\ (~NewModel /\ Len(m'.config.hosts) < Len(m.config.hosts))
            => /\ m.state = "confirmDelete"
               /\ \E i \in DOMAIN m.config.hosts :
                     /\ m.config.hosts[i] = m.deleteConfirmHost
                     /\ m'.config.hosts = RemoveAt(m.config.hosts, i)
                     /\ file'.cfg.hosts = SavedHosts(m'.config.hosts)
       /\ ConfirmDeleteNo
            => /\ m'.state = "list"
               /\ m'.config.hosts = m.config.hosts
               /\ file' = file]_vars

\* C34: a submitted edit replaces the host that was selected when "e" was
\* pressed and leaves every other host as it was, and "y" removes the host
\* the confirmation shows, whatever the search of the list shows
C34_SelectedHostIsHit ==
    [][/\ (FormSubmitted /\ m.editingIndex >= 0
                         /\ m.editingIndex < Len(m.config.hosts))
            => /\ NewFormModelWithHost(m.config.hosts[m.editingIndex + 1]) = m.form
               /\ Len(m'.config.hosts) = Len(m.config.hosts)
               /\ \A i \in DOMAIN m.config.hosts :
                     i # m.editingIndex + 1 => m'.config.hosts[i] = m.config.hosts[i]
       /\ (ConfirmDeleteYes /\ m'.config.hosts # m.config.hosts)
            => \E i \in DOMAIN m.config.hosts :
                  /\ m.config.hosts[i] = m.deleteConfirmHost
                  /\ m'.config.hosts = RemoveAt(m.config.hosts, i)]_vars

\* the model runs on the config NewModel puts in place of a failed load
OnPlaceholder ==
    /\ m.state # "none"
    /\ m.config.sources = ZeroConfig.sources
    /\ m.config.termix = ZeroConfig.termix
    /\ m.config.ssh = ZeroConfig.ssh

\* C35: while the model runs on the placeholder of a failed load, no key and
\* no form submission takes a host out of config.json that the list does not
\* show, or changes the source toggles and Termix settings config.json holds
C35_FailedLoadKeepsStore ==
    [][(OnPlaceholder /\ ~NewModel /\ file.exists)
         => /\ file'.cfg.sources = file.cfg.sources
            /\ file'.cfg.termix = file.cfg.termix
            /\ \A i \in DOMAIN file.cfg.hosts :
                  \/ file.cfg.hosts[i] \in SeqRange(file'.cfg.hosts)
                  \/ file.cfg.hosts[i] \in SeqRange(m.config.hosts)]_vars

\* C36: the LoadConfig that follows a successful login finds the token just
\* stored usable, whatever lifetime the cookie gave it: it does not come back
\* with the AuthError of a missing or expired token
C36_StoredTokenUsable ==
    call.pc = "reloaded"
        => call.err # AuthError("termix: authentication required - token expired or missing")

(***************************************************************************)
(* The marks of hosts being probed (SpecPingFair)                          *)
(***************************************************************************)
\* the keys of the hosts probed
PingKeys == {GetHostKey(h) : h \in PingHosts}

\* m.pinging[key]
Pinging(key) == key \in DOMAIN m.pinging /\ m.pinging[key]

\* C37: every key marked as being probed, at startup or by "p", is marked as
\* no longer probed later on, every started probe delivering its result: once
\* the probe-alls have run no key stays marked; and with no result
\* outstanding no key is marked
C37_PingingCleared ==
    /\ <>[](\A key \in PingKeys : ~Pinging(key))
    /\ [](pending = <<>> => \A key \in PingKeys : ~Pinging(key))

C37_Witness ==
    /\ call.batches = MaxBatches
    /\ pending = <<>>
    /\ PingKeys \subseteq DOMAIN m.pinging
    /\ \A key \in PingKeys : ~m.pinging[key]

\* C38: the host awaiting the delete confirmation is set exactly while the
\* model is in the delete confirmation, whenever the messages arrive
C38_PendingDeleteIffConfirming ==
    m.state # "none" => (m.deleteConfirmHost # NoHost <=> m.state = "confirmDelete")

(***************************************************************************)
(* The form alone: focus, inputs, validation (SpecForm)                    *)
(***************************************************************************)
\* len(m.inputs)
NumInputs == 7

\* what the inputs Alias, Hostname, User and Port can hold
FormTexts ==
    [alias : {"", " ", "a"}, hostname : {"", "9.9.9.9"}, user : {"", "u"},
     port : {"", "0", "22", "65536", "x"}]

\* the model showing the form of the "n" key over a list of hosts
InitForm ==
    /\ file \in {NoFile,
                 SaveConfig([DefaultConfig EXCEPT !.hosts = <<StoredHost("a", "1.1.1.1")>>])}
    /\ sshEnv = [err |-> FALSE, hosts |-> <<>>, user |-> ""]
    /\ load = NoLoads
    /\ cv = NoView
    /\ call = NoCall
    /\ pending = <<>>
    /\ m = [state |-> "form",
            config |-> [LoadConfigRaw(file) EXCEPT !.hosts = MarkManual(@)],
            form |-> NewFormModel,
            focused |-> 0,
            validationErrs |-> {},
            editingIndex |-> -1,
            deleteConfirmHost |-> NoHost,
            deleteConfirmIdx |-> 0,
            configErrors |-> {}]

\* the inputs take the keys typed: they hold typed afterwards
FormType(typed) ==
    /\ m.state = "form"
    /\ typed # m.form
    /\ m' = [m EXCEPT !.form = typed]
    /\ UNCHANGED <<file, sshEnv, load, pending, cv, call>>

\* FormModel.Update, enter: on the last field the host is validated and
\* submitted when valid, on any other field the focus moves on
FormKeyEnter ==
    /\ m.state = "form"
    /\ LET host == GetHost(m.form)
           validationErrs == HostValidate(host)
       IN  IF m.focused = NumInputs - 1
           THEN IF validationErrs # {}
                THEN /\ m' = [m EXCEPT !.validationErrs = validationErrs]
                     /\ UNCHANGED pending
                ELSE /\ Len(pending) < MaxPending
                     /\ m' = [m EXCEPT !.validationErrs = {}]
                     /\ pending' = Append(pending, host)
           ELSE /\ m' = [m EXCEPT !.focused = (m.focused + 1) % NumInputs]
                /\ UNCHANGED pending
    /\ UNCHANGED <<file, sshEnv, load, cv, call>>

\* FormModel.Update, tab or down
FormKeyTab ==
    /\ m.state = "form"
    /\ m' = [m EXCEPT !.focused = (m.focused + 1) % NumInputs]
    /\ UNCHANGED <<file, sshEnv, load, pending, cv, call>>

\* FormModel.Update, shift+tab or up
FormKeyShiftTab ==
    /\ m.state = "form"
    /\ m' = [m EXCEPT !.focused = IF m.focused = 0 THEN NumInputs - 1
                                  ELSE m.focused - 1]
    /\ UNCHANGED <<file, sshEnv, load, pending, cv, call>>

NextForm ==
    \/ \E typed \in FormTexts : FormType(typed)
    \/ FormKeyEnter
    \/ FormKeyTab
    \/ FormKeyShiftTab

SpecForm == InitForm /\ [][NextForm]_vars

\* what the claim asks of a submitted host: alias, hostname and user not
\* blank, the port empty or a number from 1 to 65535
Submittable(h) ==
    /\ TrimSpace(h.alias) # "" /\ TrimSpace(h.hostname) # "" /\ TrimSpace(h.user) # ""
    /\ h.port = "" \/ (Atoi(h.port).ok /\ Atoi(h.port).n \in 1 .. 65535)

\* C39: a FormSubmittedMsg is sent only by enter on the last field with a
\* host whose alias, hostname and user are not blank and whose port is empty
\* or a number from 1 to 65535; enter on the last field with any other host
\* sends nothing and leaves the form open with its validation errors set;
\* the form changes neither the host list nor config.json
C39_SubmitOnlyValid ==
    [][/\ pending' # pending
            => /\ FormKeyEnter
               /\ m.focused = NumInputs - 1
               /\ pending' = Append(pending, GetHost(m.form))
               /\ Submittable(GetHost(m.form))
       /\ (FormKeyEnter /\ m.focused = NumInputs - 1 /\ ~Submittable(GetHost(m.form)))
            => /\ pending' = pending
               /\ m'.state = "form"
               /\ m'.validationErrs # {}
       /\ m'.config = m.config
       /\ file' = file]_vars

C39_Witness ==
    /\ pending # <<>>
    /\ m.form.port = "0"
    /\ m.validationErrs = {"Port"}
    /\ m.focused = NumInputs - 1

(***************************************************************************)
(* An SSH configuration that cannot be read (SpecAgg)                      *)
(***************************************************************************)
\* the SSH configuration read without error and holding no host
EmptySSHEnv == [err |-> FALSE, hosts |-> <<>>, user |-> sshEnv.user]

\* C40: when the SSH configuration cannot be read, LoadConfig returns what it
\* returns for an SSH configuration without hosts: no error on its account, no
\* ssh-config host, the manual hosts and the Termix hosts as they come
C40_SSHReadErrorIgnored ==
    [][(load' # load /\ sshEnv.err)
         => /\ TaggedHosts(load'.cur.hosts, "ssh-config") = <<>>
            /\ \E now \in Times, answer \in AggAnswers :
                  LET r == LoadConfig(file, EmptySSHEnv, now, Server(answer))
                  IN  /\ load'.cur = LoadRecord(file, EmptySSHEnv, now, answer, r)
                      /\ file' = r.file]_vars

C40_Witness ==
    /\ sshEnv.err
    /\ load.cur.n = 1
    /\ load.cur.sources.sshconfig /\ load.cur.sshOn
    /\ load.cur.ok
    /\ TaggedHosts(load.cur.hosts, "manual") # <<>>
    /\ TaggedHosts(load.cur.hosts, "termix") # <<>>

====
